---------------------------- MODULE Spec2Model ----------------------------
(***************************************************************************)
(* Model of the LEGACY Protocol shard chain engine: FractalBlockchain      *)
(* (blockchain.py), BlockValidator (validator.py), ShardConsensus          *)
(* (consensus.py), FractalBlock.verify (block.py), MerkleMesh.build        *)
(* (merkle_mesh.py), FractalTransaction.validate/execute (transaction.py), *)
(* UTXOStorage (storage.py) and TransactionMempool (mempool.py).           *)
(*                                                                         *)
(* Conventions.  A SHA-256 digest is modelled by the tuple of the fields   *)
(* that are hashed (an injective digest); block hashes are small naturals. *)
(* Amounts are whole coins.  Every handler is one operator that returns    *)
(* the state it leaves behind together with its return value; an exception *)
(* is modelled where the code raises it and is caught where the code       *)
(* catches it.  The operators model the bodies of the methods as written.  *)
(***************************************************************************)
EXTENDS Integers, Sequences, FiniteSets, TLC

\* -------------------------------------------------------------------------
\* Bounds of the model
\* -------------------------------------------------------------------------

\* Largest number of entries of ShardConsensus._recent_blocks that is explored
\* (every block validation appends one entry).
MaxRecent == 2

\* Largest depth of the coordinates that are converted and checked.
MaxDepth == 3

\* Largest shard id a coordinate is checked for.
MaxShard == 4

\* The difficulty_adjustment_window of the ShardConsensus that is explored on
\* its own (its _recent_blocks never holds more entries).
ConsensusWindow == 3

\* -------------------------------------------------------------------------
\* Program constants
\* -------------------------------------------------------------------------

ShardId == 1
DifficultyAdjustmentWindow == 2016
TargetBlockTime == 600
MaxDifficultyChange == 4
InitialDifficulty == 16
FutureTolerance == 7200
MaxSize == 50000
\* min_fee_per_byte = 0.00001 = 1 / MinFeePerByteInv
MinFeePerByteInv == 100000
\* int(time.time()) at the moment of the calls
Now == 100000

ZeroHash == 0
NoHash == -1
NoErr == ""

\* -------------------------------------------------------------------------
\* FractalCoordinate: a coordinate is its path, depth = Len(path)
\* -------------------------------------------------------------------------

get_shard_id(coord) == IF Len(coord) > 0 THEN coord[1] ELSE 0

\* -------------------------------------------------------------------------
\* FractalUTXO
\* -------------------------------------------------------------------------

FractalUTXO(owner, amount, coord, height, script) ==
    [owner_address |-> owner, amount |-> amount, coordinate |-> coord,
     creation_height |-> height, script |-> script]

\* compute_id: digest of owner | amount | script | coordinate | creation_height
UtxoId(u) == <<u.owner_address, u.amount, u.creation_height, u.coordinate, u.script>>

\* can_spend_with: OP_RETURN can never be spent, everything else passes
\* (the signature check is a placeholder that returns True)
can_spend_with(u) == u.script # "OP_RETURN"

\* -------------------------------------------------------------------------
\* UTXOStorage: _utxos as a function utxo_id -> utxo
\* -------------------------------------------------------------------------

EmptyMap == [x \in {} |-> 0]

MapPut(m, k, v) == [x \in (DOMAIN m) \cup {k} |-> IF x = k THEN v ELSE m[x]]

MapDel(m, k) == [x \in (DOMAIN m) \ {k} |-> m[x]]

has_utxo(st, id) == id \in DOMAIN st

\* add_utxo raises ValueError when the id is already stored
add_utxo(st, u) ==
    IF UtxoId(u) \in DOMAIN st
    THEN [raised |-> TRUE, utxos |-> st]
    ELSE [raised |-> FALSE, utxos |-> MapPut(st, UtxoId(u), u)]

\* remove_utxo raises ValueError when the id is not stored
remove_utxo(st, id) ==
    IF id \notin DOMAIN st
    THEN [raised |-> TRUE, utxos |-> st]
    ELSE [raised |-> FALSE, utxos |-> MapDel(st, id)]

\* -------------------------------------------------------------------------
\* UTXOSpatialIndexer: [ids, points, grid, kdtree, scipy]
\* ids and points are the parallel lists, grid maps a cell <<i, j>> to the
\* points of the cell (utxo_id -> point), kdtree is the list of points the
\* KD-tree was built from (NoTree: None), scipy tells whether the KDTree
\* class could be imported.  A point is <<x, y>> in units of half a grid
\* cell, so that grid_size is GridSize units.
\* -------------------------------------------------------------------------

GridSize == 2
RebuildThreshold == 500

NoTree == <<>>

\* UTXOSpatialIndexer.__init__()
UTXOSpatialIndexer(scipy) ==
    [ids |-> <<>>, points |-> <<>>, grid |-> EmptyMap, kdtree |-> NoTree,
     scipy |-> scipy]

\* _get_grid_cell(point)
get_grid_cell(point) == <<point[1] \div GridSize, point[2] \div GridSize>>

\* rebuild_index(): a KD-tree over the current points, None without scipy
\* or without points
rebuild_index(ix) ==
    [ix EXCEPT !.kdtree = IF ix.scipy /\ ix.points # <<>> THEN ix.points ELSE NoTree]

\* the parallel lists without the first entry of utxo_id
WithoutId(ix, utxo_id) ==
    IF \A i \in DOMAIN ix.ids : ix.ids[i] # utxo_id THEN ix
    ELSE LET idx == CHOOSE i \in DOMAIN ix.ids :
                        ix.ids[i] = utxo_id /\ \A j \in 1..(i - 1) : ix.ids[j] # utxo_id
             Pop(l) == [i \in 1..(Len(l) - 1) |-> IF i < idx THEN l[i] ELSE l[i + 1]]
         IN [ix EXCEPT !.ids = Pop(ix.ids), !.points = Pop(ix.points)]

\* insert(utxo_id, coord).  fault names the statement of the try block that
\* raises: "none", "get_grid_cell" (the cell index is not computed) or
\* "points" (the point is not stored in its cell).  The except block takes
\* the id back out of the lists and out of its cell, when the cell index is
\* bound, and raises.
insert(ix, utxo_id, coord, fault) ==
    LET cell == get_grid_cell(coord)
        appended == [ix EXCEPT !.ids = Append(ix.ids, utxo_id),
                               !.points = Append(ix.points, coord)]
        CellOf(g) == IF cell \in DOMAIN g THEN g[cell] ELSE EmptyMap
        with_cell == [appended EXCEPT !.grid = MapPut(ix.grid, cell, CellOf(ix.grid))]
        Added(a) ==
            IF a.scipy /\ Len(a.points) % RebuildThreshold = 0
            THEN rebuild_index(a) ELSE a
    IN CASE fault = "get_grid_cell" ->
              [raised |-> TRUE, index |-> WithoutId(appended, utxo_id)]
         [] fault = "points" ->
              [raised |-> TRUE,
               index |-> [WithoutId(with_cell, utxo_id) EXCEPT
                             !.grid = MapPut(with_cell.grid, cell,
                                             MapDel(with_cell.grid[cell], utxo_id))]]
         [] OTHER ->
              [raised |-> FALSE,
               index |-> Added([with_cell EXCEPT
                                   !.grid = MapPut(ix.grid, cell,
                                                   MapPut(CellOf(ix.grid), utxo_id, coord))])]

\* remove(utxo_id, coord)
remove(ix, utxo_id, coord) ==
    LET cell == get_grid_cell(coord)
        Removed(r) == IF r.kdtree # NoTree THEN rebuild_index(r) ELSE r
    IN Removed([WithoutId(ix, utxo_id) EXCEPT
                   !.grid = IF cell \notin DOMAIN ix.grid THEN ix.grid
                            ELSE IF DOMAIN ix.grid[cell] \subseteq {utxo_id}
                            THEN MapDel(ix.grid, cell)
                            ELSE MapPut(ix.grid, cell, MapDel(ix.grid[cell], utxo_id))])

\* dx*dx + dy*dy <= radius*radius
InRange(point, center, radius) ==
    (point[1] - center[1]) * (point[1] - center[1])
      + (point[2] - center[2]) * (point[2] - center[2]) <= radius * radius

\* _get_neighboring_cells(center, radius), cells_radius = ceil(radius / grid_size)
get_neighboring_cells(center, radius) ==
    LET cells_radius == (radius + GridSize - 1) \div GridSize
        c == get_grid_cell(center)
    IN {<<i, j>> : i \in (c[1] - cells_radius)..(c[1] + cells_radius),
                   j \in (c[2] - cells_radius)..(c[2] + cells_radius)}

\* query_range(center, radius): through the KD-tree when there is one,
\* through the grid otherwise; the result as a set of ids
query_range(ix, center, radius) ==
    IF ix.kdtree # NoTree
    THEN {ix.ids[i] : i \in {k \in DOMAIN ix.kdtree : InRange(ix.kdtree[k], center, radius)}}
    ELSE UNION {{id \in DOMAIN ix.grid[cell] : InRange(ix.grid[cell][id], center, radius)} :
                   cell \in get_neighboring_cells(center, radius) \cap DOMAIN ix.grid}

\* -------------------------------------------------------------------------
\* UTXOStorage with its indexes: [utxos, spatial_index, shard_indices]
\* shard_indices maps a shard to the list of the ids of the shard
\* -------------------------------------------------------------------------

\* FractalCoordinate.to_cartesian() of a coordinate of depth at most 1, in
\* the unit of the spatial index (half a grid cell), rounded
to_cartesian(coord) ==
    CASE coord = <<0>> -> <<5, 10>>
      [] coord = <<1>> -> <<10, 14>>
      [] coord = <<2>> -> <<15, 10>>
      [] OTHER -> <<10, 6>>

\* UTXOStorage.__init__()
UTXOStorage(scipy) ==
    [utxos |-> EmptyMap, spatial_index |-> UTXOSpatialIndexer(scipy),
     shard_indices |-> EmptyMap]

\* the statements of the try block of add_utxo that may raise
AddUtxoFaults == {"none", "to_cartesian", "get_grid_cell", "points", "shard_affinity", "append"}

\* list.remove(x): the list without the first x, raises when x is not in it
ListRemove(l, x) ==
    IF \A i \in DOMAIN l : l[i] # x THEN [raised |-> TRUE, list |-> l]
    ELSE LET idx == CHOOSE i \in DOMAIN l : l[i] = x /\ \A j \in 1..(i - 1) : l[j] # x
         IN [raised |-> FALSE,
             list |-> [i \in 1..(Len(l) - 1) |-> IF i < idx THEN l[i] ELSE l[i + 1]]]

\* the except block of add_utxo: the id leaves the main map, then the
\* spatial index when x and y are bound, then the list of its shard when
\* shard is bound and has a list; the block always ends in an exception
AddUtxoRollback(S, utxo, xy_bound, shard_bound) ==
    LET id == UtxoId(utxo)
        shard == get_shard_id(utxo.coordinate)
        popped == [S EXCEPT !.utxos = MapDel(S.utxos, id)]
        Unindexed(r) ==
            IF shard_bound /\ shard \in DOMAIN r.shard_indices
            THEN [r EXCEPT !.shard_indices =
                     MapPut(r.shard_indices, shard, ListRemove(r.shard_indices[shard], id).list)]
            ELSE r
    IN IF ~xy_bound THEN popped
       ELSE Unindexed([popped EXCEPT !.spatial_index =
                          remove(S.spatial_index, id, to_cartesian(utxo.coordinate))])

\* UTXOStorage.add_utxo(utxo), with the statement that raises (fault)
storage_add_utxo(S, utxo, fault) ==
    LET id == UtxoId(utxo)
        shard == get_shard_id(utxo.coordinate)
        stored == [S EXCEPT !.utxos = MapPut(S.utxos, id, utxo)]
        Failed(r, xy_bound, shard_bound) ==
            [raised |-> TRUE, storage |-> AddUtxoRollback(r, utxo, xy_bound, shard_bound)]
        Indexed(ins) ==
            LET placed == [stored EXCEPT !.spatial_index = ins.index]
                listed == IF shard \in DOMAIN S.shard_indices THEN placed
                          ELSE [placed EXCEPT !.shard_indices = MapPut(S.shard_indices, shard, <<>>)]
            IN CASE ins.raised -> Failed(placed, TRUE, FALSE)
                 [] fault = "shard_affinity" -> Failed(placed, TRUE, FALSE)
                 [] fault = "append" -> Failed(listed, TRUE, TRUE)
                 [] OTHER ->
                      [raised |-> FALSE,
                       storage |-> [listed EXCEPT !.shard_indices[shard] = Append(@, id)]]
    IN IF id \in DOMAIN S.utxos THEN [raised |-> TRUE, storage |-> S]
       ELSE IF fault = "to_cartesian" THEN Failed(stored, FALSE, FALSE)
       ELSE Indexed(insert(S.spatial_index, id, to_cartesian(utxo.coordinate),
                           IF fault \in {"get_grid_cell", "points"} THEN fault ELSE "none"))

\* a remove_utxo that drops the id from the main map and never raises
storage_remove_utxo_silent(S, utxo_id) ==
    [raised |-> FALSE, storage |-> [S EXCEPT !.utxos = MapDel(S.utxos, utxo_id)]]

\* UTXOStorage.remove_utxo(utxo_id)
storage_remove_utxo(S, utxo_id) ==
    IF utxo_id \notin DOMAIN S.utxos THEN [raised |-> TRUE, storage |-> S]
    ELSE LET utxo == S.utxos[utxo_id]
             shard == get_shard_id(utxo.coordinate)
             unplaced == [S EXCEPT !.spatial_index =
                             remove(S.spatial_index, utxo_id, to_cartesian(utxo.coordinate))]
             Unlisted(lr) ==
                 IF lr.raised THEN [raised |-> TRUE, storage |-> unplaced]
                 ELSE [raised |-> FALSE,
                       storage |-> [unplaced EXCEPT
                           !.shard_indices = IF lr.list = <<>> THEN MapDel(S.shard_indices, shard)
                                             ELSE MapPut(S.shard_indices, shard, lr.list),
                           !.utxos = MapDel(S.utxos, utxo_id)]]
         IN IF shard \in DOMAIN S.shard_indices
            THEN Unlisted(ListRemove(S.shard_indices[shard], utxo_id))
            ELSE [raised |-> FALSE,
                  storage |-> [unplaced EXCEPT !.utxos = MapDel(S.utxos, utxo_id)]]

\* -------------------------------------------------------------------------
\* FractalTransaction
\* A transaction is [tx_id, inputs, outputs, size]: inputs is the sequence of
\* the utxo_ids it spends, outputs a sequence of
\* [owner_address, amount, coordinate, script], size is len(str(to_dict())).
\* -------------------------------------------------------------------------

RECURSIVE SeqToSet(_)
SeqToSet(s) == IF s = <<>> THEN {} ELSE {Head(s)} \cup SeqToSet(Tail(s))

OutputShards(tx) == {get_shard_id(tx.outputs[i].coordinate) : i \in DOMAIN tx.outputs}

\* __init__: cross_shard = len(output_shards) > 1
cross_shard(tx) == Cardinality(OutputShards(tx)) > 1

RECURSIVE OutputSum(_)
OutputSum(outs) == IF outs = <<>> THEN 0 ELSE Head(outs).amount + OutputSum(Tail(outs))

\* input_sum += utxo.amount, once per listed input
RECURSIVE InputSum(_, _)
InputSum(st, ins) ==
    IF ins = <<>> THEN 0
    ELSE (IF Head(ins) \in DOMAIN st THEN st[Head(ins)].amount ELSE 0)
         + InputSum(st, Tail(ins))

\* is_utxo_spent that ignores the index: no UTXO counts as spent
is_utxo_spent_never(mp, id) == FALSE

\* TransactionMempool.is_utxo_spent
is_utxo_spent(mp, id) == id \in DOMAIN mp.spent_utxos

\* The loop of validate over the inputs: the error of the first input that
\* fails, NoErr when none does.  use_mp is FALSE when mempool is None.
RECURSIVE InputError(_, _, _, _)
InputError(st, ins, mp, use_mp) ==
    IF ins = <<>> THEN NoErr
    ELSE IF Head(ins) \notin DOMAIN st THEN "Input UTXO not found"
    ELSE IF use_mp /\ is_utxo_spent(mp, Head(ins))
         THEN "Input UTXO already spent in mempool"
    ELSE IF ~can_spend_with(st[Head(ins)]) THEN "Invalid signature for UTXO"
    ELSE InputError(st, Tail(ins), mp, use_mp)

\* FractalTransaction.validate(utxo_storage, current_height, mempool)
validate(st, tx, mp, use_mp) ==
    LET Checked(e) ==
            IF e # NoErr THEN [ok |-> FALSE, err |-> e]
            ELSE IF OutputSum(tx.outputs) > InputSum(st, tx.inputs)
            THEN [ok |-> FALSE, err |-> "Output amount exceeds input amount"]
            ELSE [ok |-> TRUE, err |-> NoErr]
    IN Checked(InputError(st, tx.inputs, mp, use_mp))

\* The UTXOs execute builds from the outputs, creation_height = current_height
NewUtxos(tx, height) ==
    [i \in DOMAIN tx.outputs |->
        FractalUTXO(tx.outputs[i].owner_address, tx.outputs[i].amount,
                    tx.outputs[i].coordinate, height, tx.outputs[i].script)]

\* execute without the call of validate: the new UTXOs are always built
execute_unchecked(st, tx, height) ==
    [ok |-> TRUE, err |-> NoErr, new_utxos |-> NewUtxos(tx, height)]

\* FractalTransaction.execute(utxo_storage, current_height): validates against
\* the store (without mempool) and then builds the new UTXOs
execute(st, tx, height) ==
    LET Validated(v) ==
            IF ~v.ok THEN [ok |-> FALSE, err |-> v.err, new_utxos |-> <<>>]
            ELSE [ok |-> TRUE, err |-> NoErr, new_utxos |-> NewUtxos(tx, height)]
    IN Validated(validate(st, tx, [spent_utxos |-> EmptyMap], FALSE))

\* -------------------------------------------------------------------------
\* TransactionMempool: [transactions, shard_txs, spent_utxos, max_size]
\* transactions: tx_id -> [transaction, fee, in_blocks]; shard_txs: shard ->
\* set of tx_ids; spent_utxos: utxo_id -> tx_id
\* -------------------------------------------------------------------------

\* TransactionMempool.__init__(max_size)
TransactionMempool(max_size) ==
    [transactions |-> EmptyMap, shard_txs |-> EmptyMap, spent_utxos |-> EmptyMap,
     max_size |-> max_size]

\* TransactionMempool() with the default max_size
EmptyMempool == TransactionMempool(MaxSize)

\* remove_transaction that deletes from the main index alone
remove_transaction_main_only(mp, tx_id) ==
    [mp EXCEPT !.transactions = MapDel(mp.transactions, tx_id)]

\* remove_transaction(tx_id)
remove_transaction(mp, tx_id) ==
    IF tx_id \notin DOMAIN mp.transactions THEN mp
    ELSE LET tx == mp.transactions[tx_id].transaction
             sh == [s \in DOMAIN mp.shard_txs |-> mp.shard_txs[s] \ {tx_id}]
         IN [mp EXCEPT
                 !.transactions = MapDel(mp.transactions, tx_id),
                 !.shard_txs = [s \in {x \in DOMAIN sh : sh[x] # {}} |-> sh[s]],
                 !.spent_utxos = [u \in (DOMAIN mp.spent_utxos) \ SeqToSet(tx.inputs)
                                     |-> mp.spent_utxos[u]]]

\* The entry with the lowest fee rate fee/size (rates compared cross-multiplied)
LowestFee(mp) ==
    CHOOSE t \in DOMAIN mp.transactions :
        \A o \in DOMAIN mp.transactions :
            mp.transactions[t].fee * mp.transactions[o].transaction.size
              <= mp.transactions[o].fee * mp.transactions[t].transaction.size

\* _prune_low_fee_transactions: does nothing unless len > max_size
RECURSIVE prune_low_fee_transactions(_)
prune_low_fee_transactions(mp) ==
    IF Cardinality(DOMAIN mp.transactions) <= mp.max_size THEN mp
    ELSE prune_low_fee_transactions(remove_transaction(mp, LowestFee(mp)))

\* The three index updates at the end of add_transaction
InsertEntry(mp, tx, fee) ==
    LET shards == OutputShards(tx) IN
    [mp EXCEPT
        !.transactions = MapPut(mp.transactions, tx.tx_id,
                                [transaction |-> tx, fee |-> fee, in_blocks |-> {}]),
        !.shard_txs = [s \in (DOMAIN mp.shard_txs) \cup shards |->
                          (IF s \in DOMAIN mp.shard_txs THEN mp.shard_txs[s] ELSE {})
                          \cup (IF s \in shards THEN {tx.tx_id} ELSE {})],
        !.spent_utxos = [u \in (DOMAIN mp.spent_utxos) \cup SeqToSet(tx.inputs) |->
                            IF u \in SeqToSet(tx.inputs) THEN tx.tx_id
                            ELSE mp.spent_utxos[u]]]

\* add_transaction that writes the entry and the indexes before the fee
\* rate and the size limit are tested
add_transaction_insert_first(mp, st, tx) ==
    LET Insert(fee) ==
            IF fee * MinFeePerByteInv < tx.size
            THEN [ok |-> FALSE, err |-> "Fee rate too low",
                  mempool |-> InsertEntry(mp, tx, fee)]
            ELSE IF Cardinality(DOMAIN mp.transactions) >= mp.max_size
            THEN [ok |-> FALSE, err |-> "Mempool full",
                  mempool |-> InsertEntry(mp, tx, fee)]
            ELSE [ok |-> TRUE, err |-> NoErr, mempool |-> InsertEntry(mp, tx, fee)]
        Validated(v) ==
            IF ~v.ok THEN [ok |-> FALSE, err |-> v.err, mempool |-> mp]
            ELSE Insert(InputSum(st, tx.inputs) - OutputSum(tx.outputs))
    IN
    IF tx.tx_id \in DOMAIN mp.transactions
    THEN [ok |-> FALSE, err |-> "Transaction already in mempool", mempool |-> mp]
    ELSE Validated(validate(st, tx, mp, TRUE))

\* add_transaction(transaction, utxo_storage, current_height)
add_transaction(mp, st, tx) ==
    LET Insert(fee, pruned) ==
            \* fee_per_byte = fee / tx_size < min_fee_per_byte
            IF fee * MinFeePerByteInv < tx.size
            THEN [ok |-> FALSE, err |-> "Fee rate too low", mempool |-> mp]
            ELSE IF Cardinality(DOMAIN mp.transactions) >= mp.max_size
            THEN IF Cardinality(DOMAIN pruned.transactions) >= mp.max_size
                 THEN [ok |-> FALSE, err |-> "Mempool full", mempool |-> pruned]
                 ELSE [ok |-> TRUE, err |-> NoErr,
                       mempool |-> InsertEntry(pruned, tx, fee)]
            ELSE [ok |-> TRUE, err |-> NoErr, mempool |-> InsertEntry(mp, tx, fee)]
        Validated(v) ==
            IF ~v.ok THEN [ok |-> FALSE, err |-> v.err, mempool |-> mp]
            ELSE Insert(InputSum(st, tx.inputs) - OutputSum(tx.outputs),
                        prune_low_fee_transactions(mp))
    IN
    IF tx.tx_id \in DOMAIN mp.transactions
    THEN [ok |-> FALSE, err |-> "Transaction already in mempool", mempool |-> mp]
    ELSE Validated(validate(st, tx, mp, TRUE))

\* mark_included_in_block(tx_id, block_id)
mark_included_in_block(mp, tx_id, block_id) ==
    IF tx_id \notin DOMAIN mp.transactions THEN mp
    ELSE [mp EXCEPT !.transactions[tx_id].in_blocks = @ \cup {block_id}]

\* remove_transaction for each id of a list of distinct ids
RECURSIVE RemoveAll(_, _)
RemoveAll(mp, ids) ==
    IF ids = {} THEN mp
    ELSE LET id == CHOOSE x \in ids : TRUE
         IN RemoveAll(remove_transaction(mp, id), ids \ {id})

\* remove_block_transactions(block_id)
remove_block_transactions(mp, block_id) ==
    RemoveAll(mp, {t \in DOMAIN mp.transactions :
                      block_id \in mp.transactions[t].in_blocks})

\* clear()
clear(mp) ==
    [mp EXCEPT !.transactions = EmptyMap, !.shard_txs = EmptyMap,
               !.spent_utxos = EmptyMap]

\* -------------------------------------------------------------------------
\* MerkleMesh.build: the root hash over the tx_ids of a block
\* A hash is a sequence of naturals: a leaf is <<tx_id>>, the hash of a pair
\* is an injective encoding of the two child hashes.
\* -------------------------------------------------------------------------

NoRoot == <<>>
ZeroRoot == <<0>>

hash_pair(l, r) == <<Len(l)>> \o l \o r

\* One level up: pairs left to right, an odd last node is paired with itself
ParentLevel(level) ==
    [i \in 1..((Len(level) + 1) \div 2) |->
        hash_pair(level[2 * i - 1],
                  IF 2 * i <= Len(level) THEN level[2 * i] ELSE level[2 * i - 1])]

RECURSIVE BuildRoot(_)
BuildRoot(level) ==
    IF level = <<>> THEN NoRoot
    ELSE IF Len(level) = 1 THEN level[1]
    ELSE BuildRoot(ParentLevel(level))

\* _build_merkle_mesh: leaves are the tx_ids in block order
MeshRoot(txs) == BuildRoot([i \in DOMAIN txs |-> <<txs[i].tx_id>>])

\* MerkleMesh.__init__: no leaves, root None
MerkleMesh == [leaves |-> <<>>, root |-> NoRoot]

\* MerkleMesh.add_transaction(tx_hash, coordinate): appends a leaf
mesh_add_transaction(m, tx_hash) == [m EXCEPT !.leaves = Append(m.leaves, tx_hash)]

\* MerkleMesh.build()
build(m) == [m EXCEPT !.root = BuildRoot(m.leaves)]

\* get_proof: the loop up the tree from position idx (counted from 1) of
\* level; an element is [hash, is_left], is_left from the verifier's side
RECURSIVE ProofPath(_, _)
ProofPath(level, idx) ==
    IF Len(level) <= 1 THEN <<>>
    ELSE LET is_left == idx % 2 = 1
             sibling_idx == IF ~is_left THEN idx - 1
                            ELSE IF idx + 1 > Len(level) THEN idx ELSE idx + 1
         IN <<[hash |-> level[sibling_idx], is_left |-> ~is_left]>>
            \o ProofPath(ParentLevel(level), (idx + 1) \div 2)

\* MerkleMesh.get_proof(tx_hash): raises ValueError when the mesh is not
\* built or no leaf has the hash; the first leaf with the hash is proved
get_proof(m, tx_hash) ==
    IF m.root = NoRoot \/ \A i \in DOMAIN m.leaves : m.leaves[i] # tx_hash
    THEN [raised |-> TRUE, proof |-> <<>>]
    ELSE [raised |-> FALSE,
          proof |-> ProofPath(m.leaves,
                              CHOOSE i \in DOMAIN m.leaves :
                                  /\ m.leaves[i] = tx_hash
                                  /\ \A j \in 1..(i - 1) : m.leaves[j] # tx_hash)]

\* verify_proof: the hash obtained by applying the proof elements in order
RECURSIVE ApplyProof(_, _)
ApplyProof(current_hash, proof) ==
    IF proof = <<>> THEN current_hash
    ELSE ApplyProof(IF Head(proof).is_left
                    THEN hash_pair(Head(proof).hash, current_hash)
                    ELSE hash_pair(current_hash, Head(proof).hash),
                    Tail(proof))

\* MerkleMesh.verify_proof(tx_hash, proof, root_hash) with a root_hash given
verify_proof(tx_hash, proof, root_hash) ==
    IF proof = <<>> THEN FALSE
    ELSE ApplyProof(tx_hash, proof) = root_hash

\* -------------------------------------------------------------------------
\* CrossShardProof: [tx_hash, source_shard, target_shards, elements];
\* a ProofElement is [block_hash, merkle_proof, shard_id, ref_hashes]
\* -------------------------------------------------------------------------

CrossShardProof(tx_hash, source_shard, target_shards) ==
    [tx_hash |-> tx_hash, source_shard |-> source_shard,
     target_shards |-> target_shards, elements |-> <<>>]

\* add_element(element): raises ValueError for a shard that is neither the
\* source nor a target
add_element(p, element) ==
    IF element.shard_id # p.source_shard /\ element.shard_id \notin p.target_shards
    THEN [raised |-> TRUE, proof |-> p]
    ELSE [raised |-> FALSE, proof |-> [p EXCEPT !.elements = Append(p.elements, element)]]

\* verify: the loop over the elements (block hash, then Merkle proof)
RECURSIVE ElementError(_, _, _, _)
ElementError(tx_hash, elements, mesh_roots, block_hashes) ==
    IF elements = <<>> THEN NoErr
    ELSE LET e == Head(elements) IN
         IF e.shard_id \notin DOMAIN block_hashes THEN "Missing block hash for shard"
         ELSE IF e.block_hash # block_hashes[e.shard_id]
         THEN "Invalid block hash for shard"
         ELSE IF e.shard_id \notin DOMAIN mesh_roots THEN "Missing mesh root for shard"
         ELSE IF ~verify_proof(tx_hash, e.merkle_proof, mesh_roots[e.shard_id])
         THEN "Invalid Merkle proof for shard"
         ELSE ElementError(tx_hash, Tail(elements), mesh_roots, block_hashes)

\* verify: some pair of elements that are both of target shards shares no
\* reference hash
PairWithoutSharedRef(p) ==
    \E i, j \in DOMAIN p.elements :
        /\ i < j
        /\ p.elements[i].shard_id \in p.target_shards
        /\ p.elements[j].shard_id \in p.target_shards
        /\ p.elements[i].ref_hashes \cap p.elements[j].ref_hashes = {}

\* CrossShardProof.verify(mesh_roots, block_hashes)
verify_cross_shard_proof(p, mesh_roots, block_hashes) ==
    LET Checked(e) ==
            IF e # NoErr THEN [ok |-> FALSE, err |-> e]
            ELSE IF PairWithoutSharedRef(p)
            THEN [ok |-> FALSE, err |-> "Missing cross-shard references"]
            ELSE [ok |-> TRUE, err |-> NoErr]
    IN
    IF {p.elements[i].shard_id : i \in DOMAIN p.elements}
         # {p.source_shard} \cup p.target_shards
    THEN [ok |-> FALSE, err |-> "Missing proof elements for some shards"]
    ELSE Checked(ElementError(p.tx_hash, p.elements, mesh_roots, block_hashes))

\* -------------------------------------------------------------------------
\* FractalBlock
\* A block is [block_hash, zero_bits, prev_hash, merkle_mesh_root, timestamp,
\* difficulty, height, coordinate, cross_shard_refs, transactions,
\* cross_shard_proofs]; zero_bits is the number of leading zero bits of
\* block_hash, so int(block_hash, 16) < 2 ** (256 - difficulty) is
\* zero_bits >= difficulty.  cross_shard_refs is the set of shard ids the
\* header references, cross_shard_proofs the set of tx_ids with a proof.
\* -------------------------------------------------------------------------

NoBlock ==
    [block_hash |-> NoHash, zero_bits |-> 0, prev_hash |-> NoHash,
     merkle_mesh_root |-> ZeroRoot, timestamp |-> 0, difficulty |-> 0,
     height |-> 0, coordinate |-> <<>>, cross_shard_refs |-> {},
     transactions |-> <<>>, cross_shard_proofs |-> {}]

MeetsTarget(b) == b.zero_bits >= b.difficulty

\* The loop of verify over the transactions: first failing validate
RECURSIVE VerifyTxError(_, _)
VerifyTxError(st, txs) ==
    IF txs = <<>> THEN NoErr
    ELSE IF ~validate(st, Head(txs), [spent_utxos |-> EmptyMap], FALSE).ok
         THEN "Invalid transaction"
    ELSE VerifyTxError(st, Tail(txs))

\* FractalBlock.verify(prev_block, utxo_storage)
verify(b, prev, st) ==
    LET Rooted(root) ==
            IF root = NoRoot THEN "Failed to build Merkle Mesh"
            ELSE IF root # b.merkle_mesh_root THEN "Invalid Merkle Mesh root"
            ELSE NoErr
        Verified(e) ==
            IF e # NoErr THEN e
            ELSE IF \E i \in DOMAIN b.transactions :
                        /\ cross_shard(b.transactions[i])
                        /\ b.transactions[i].tx_id \notin b.cross_shard_proofs
            THEN "Missing cross-shard proof"
            ELSE Rooted(MeshRoot(b.transactions))
    IN
    IF b.block_hash = NoHash THEN "Block not mined"
    ELSE IF ~MeetsTarget(b) THEN "Invalid proof-of-work"
    ELSE IF prev # NoBlock /\ b.prev_hash # prev.block_hash
         THEN "Invalid previous block hash"
    ELSE IF prev # NoBlock /\ b.height # prev.height + 1
         THEN "Invalid block height"
    ELSE IF prev # NoBlock /\ b.timestamp <= prev.timestamp
         THEN "Invalid timestamp"
    ELSE Verified(VerifyTxError(st, b.transactions))

\* -------------------------------------------------------------------------
\* ShardConsensus
\* -------------------------------------------------------------------------

\* len(bin(shard_id)[2:])
RECURSIVE BinLen(_)
BinLen(n) == IF n < 2 THEN 1 ELSE 1 + BinLen(n \div 2)

\* the bits of shard_id, most significant first (empty for shard 0)
RECURSIVE ShardPath(_)
ShardPath(n) == IF n = 0 THEN <<>> ELSE ShardPath(n \div 2) \o <<n % 2>>

Prefix(s, k) == SubSeq(s, 1, IF k < Len(s) THEN k ELSE Len(s))

\* _validate_coordinate
validate_coordinate(shard, coord) ==
    /\ get_shard_id(coord) = shard
    /\ Len(coord) >= BinLen(shard)
    /\ Prefix(coord, Len(ShardPath(shard))) = ShardPath(shard)

\* _recent_blocks after the append and the trim to the window
PushRecent(recent, prev) ==
    LET r == Append(recent, <<prev.height, prev.timestamp>>) IN
    IF Len(r) > DifficultyAdjustmentWindow
    THEN SubSeq(r, Len(r) - DifficultyAdjustmentWindow + 1, Len(r))
    ELSE r

\* int(prev.difficulty * adjustment) with adjustment = target / avg clamped to
\* [1 / max_change, max_change], avg = span / (window - 1)
Adjusted(d, span) ==
    LET num == TargetBlockTime * (DifficultyAdjustmentWindow - 1) IN
    IF span > 0 /\ num > MaxDifficultyChange * span THEN d * MaxDifficultyChange
    ELSE IF span < 0 \/ num * MaxDifficultyChange < span THEN d \div MaxDifficultyChange
    ELSE (d * num) \div span

\* get_next_difficulty(prev_block): the value, the new _recent_blocks, and
\* whether the division raised ZeroDivisionError
get_next_difficulty(recent, prev) ==
    LET Floor(new) == IF new > InitialDifficulty THEN new ELSE InitialDifficulty
        Window(r) ==
            IF Len(r) < DifficultyAdjustmentWindow
            THEN [raised |-> FALSE, value |-> prev.difficulty, recent |-> r]
            ELSE IF DifficultyAdjustmentWindow = 1 \/ r[Len(r)][2] = r[1][2]
            THEN [raised |-> TRUE, value |-> 0, recent |-> r]
            ELSE [raised |-> FALSE, recent |-> r,
                  value |-> Floor(Adjusted(prev.difficulty, r[Len(r)][2] - r[1][2]))]
    IN Window(PushRecent(recent, prev))

\* _validate_cross_refs: every shard the header references must be supplied
\* (refs is the set of shard ids whose referenced block is passed in and
\* matches the header's "mesh_root|block_hash" string)
validate_cross_refs(b, refs) == b.cross_shard_refs \subseteq refs

\* ShardConsensus.validate_block(block, prev_block, cross_shard_refs)
consensus_validate_block(recent, b, prev, refs) ==
    LET Rest(rec) ==
            IF prev # NoBlock /\ b.timestamp <= prev.timestamp
            THEN [err |-> "Block timestamp too early", recent |-> rec]
            ELSE IF prev # NoBlock /\ b.timestamp > Now + FutureTolerance
            THEN [err |-> "Block timestamp too far in future", recent |-> rec]
            ELSE IF ~validate_cross_refs(b, refs)
            THEN [err |-> "Invalid cross-shard references", recent |-> rec]
            ELSE IF b.block_hash = NoHash \/ ~MeetsTarget(b)
            THEN [err |-> "Invalid proof-of-work", recent |-> rec]
            ELSE [err |-> NoErr, recent |-> rec]
        Expected(nd) ==
            IF nd.raised
            THEN [err |-> "Consensus validation error", recent |-> nd.recent]
            ELSE IF b.difficulty # nd.value
            THEN [err |-> "Invalid difficulty", recent |-> nd.recent]
            ELSE Rest(nd.recent)
    IN
    IF get_shard_id(b.coordinate) # ShardId
    THEN [err |-> "Block belongs to different shard", recent |-> recent]
    ELSE IF ~validate_coordinate(ShardId, b.coordinate)
    THEN [err |-> "Invalid block coordinate", recent |-> recent]
    ELSE IF prev # NoBlock THEN Expected(get_next_difficulty(recent, prev))
    ELSE Rest(recent)

\* -------------------------------------------------------------------------
\* ShardConsensus as an object with its own parameters:
\* [shard_id, target_block_time, difficulty_adjustment_window,
\*  max_difficulty_change, initial_difficulty, recent_blocks]
\* -------------------------------------------------------------------------

\* ShardConsensus.__init__
ShardConsensus(shard_id, target_block_time, window, max_change, initial) ==
    [shard_id |-> shard_id, target_block_time |-> target_block_time,
     difficulty_adjustment_window |-> window, max_difficulty_change |-> max_change,
     initial_difficulty |-> initial, recent_blocks |-> <<>>]

\* get_next_difficulty(prev_block) of the object sc: whether the division
\* raised ZeroDivisionError, the value returned and the object afterwards
ShardConsensus_get_next_difficulty(sc, prev) ==
    LET window == sc.difficulty_adjustment_window
        max_change == sc.max_difficulty_change
        appended == Append(sc.recent_blocks, <<prev.height, prev.timestamp>>)
        r == IF Len(appended) > window
             THEN SubSeq(appended, Len(appended) - window + 1, Len(appended))
             ELSE appended
        after == [sc EXCEPT !.recent_blocks = r]
        time_span == r[Len(r)][2] - r[1][2]
        \* adjustment = target / (time_span / (window - 1)), clamped to [1 / max_change, max_change]
        num == sc.target_block_time * (window - 1)
        new_difficulty ==
            IF time_span > 0 /\ num > max_change * time_span THEN prev.difficulty * max_change
            ELSE IF time_span < 0 \/ num * max_change < time_span THEN prev.difficulty \div max_change
            ELSE (prev.difficulty * num) \div time_span
    IN IF Len(r) < window
       THEN [raised |-> FALSE, value |-> prev.difficulty, consensus |-> after]
       ELSE IF window = 1 \/ time_span = 0
       THEN [raised |-> TRUE, value |-> 0, consensus |-> after]
       ELSE [raised |-> FALSE, consensus |-> after,
             value |-> IF new_difficulty > sc.initial_difficulty THEN new_difficulty
                       ELSE sc.initial_difficulty]

\* validate_block(block, prev_block, cross_shard_refs) of the object sc, at
\* the time now: the error (NoErr: accepted) and the object afterwards
ShardConsensus_validate_block(sc, b, prev, refs, now) ==
    LET Rest(after) ==
            IF prev # NoBlock /\ b.timestamp <= prev.timestamp
            THEN [err |-> "Block timestamp too early", consensus |-> after]
            ELSE IF prev # NoBlock /\ b.timestamp > now + FutureTolerance
            THEN [err |-> "Block timestamp too far in future", consensus |-> after]
            ELSE IF ~validate_cross_refs(b, refs)
            THEN [err |-> "Invalid cross-shard references", consensus |-> after]
            ELSE IF b.block_hash = NoHash \/ ~MeetsTarget(b)
            THEN [err |-> "Invalid proof-of-work", consensus |-> after]
            ELSE [err |-> NoErr, consensus |-> after]
        Expected(nd) ==
            IF nd.raised
            THEN [err |-> "Consensus validation error", consensus |-> nd.consensus]
            ELSE IF b.difficulty # nd.value
            THEN [err |-> "Invalid difficulty", consensus |-> nd.consensus]
            ELSE Rest(nd.consensus)
    IN
    IF get_shard_id(b.coordinate) # sc.shard_id
    THEN [err |-> "Block belongs to different shard", consensus |-> sc]
    ELSE IF ~validate_coordinate(sc.shard_id, b.coordinate)
    THEN [err |-> "Invalid block coordinate", consensus |-> sc]
    ELSE IF prev # NoBlock THEN Expected(ShardConsensus_get_next_difficulty(sc, prev))
    ELSE Rest(sc)

\* -------------------------------------------------------------------------
\* BlockValidator
\* A ValidationContext is [spent_utxos, created_utxos, cross_shard_deps]:
\* spent_utxos a set of utxo_ids, created_utxos the keys of the dict in
\* insertion order.  No block of the model carries a cross-shard proof, so
\* cross_shard_deps stays empty and _validate_cross_shard_state has nothing
\* to check.
\* -------------------------------------------------------------------------

EmptyContext ==
    [spent_utxos |-> {}, created_utxos |-> <<>>, cross_shard_deps |-> EmptyMap]

\* the key f"{transaction.tx_id}:{i}" of created_utxos, i counted from 0
CreatedKey(tx_id, i) == <<tx_id, i - 1>>

\* the loop without the membership test: the inputs are only collected
SpendInputsUnchecked(spent, ins) ==
    [dup |-> FALSE, spent |-> spent \cup SeqToSet(ins)]

\* The double-spend loop of _validate_transaction: each input must not yet be
\* in context.spent_utxos and is added to it
RECURSIVE SpendInputs(_, _)
SpendInputs(spent, ins) ==
    IF ins = <<>> THEN [dup |-> FALSE, spent |-> spent]
    ELSE IF Head(ins) \in spent THEN [dup |-> TRUE, spent |-> spent]
    ELSE SpendInputs(spent \cup {Head(ins)}, Tail(ins))

RECURSIVE AppendNew(_, _)
AppendNew(keys, more) ==
    IF more = <<>> THEN keys
    ELSE AppendNew(IF Head(more) \in SeqToSet(keys) THEN keys
                   ELSE Append(keys, Head(more)), Tail(more))

\* _validate_transaction(transaction, block, context)
validate_transaction(st, mp, tx, b, ctx) ==
    LET Checked(v, sp) ==
            IF ~v.ok THEN [err |-> v.err, context |-> ctx]
            ELSE IF sp.dup THEN [err |-> "Double-spend of UTXO", context |-> ctx]
            ELSE IF cross_shard(tx) /\ tx.tx_id \notin b.cross_shard_proofs
            THEN [err |-> "Missing cross-shard proof", context |-> ctx]
            ELSE [err |-> NoErr,
                  context |->
                      [spent_utxos |-> sp.spent,
                       created_utxos |->
                           AppendNew(ctx.created_utxos,
                                     [i \in DOMAIN tx.outputs |->
                                         CreatedKey(tx.tx_id, i)]),
                       cross_shard_deps |-> ctx.cross_shard_deps]]
    IN Checked(validate(st, tx, mp, TRUE), SpendInputs(ctx.spent_utxos, tx.inputs))

\* The loop over block.transactions if it resolved the inputs incrementally:
\* the outputs of a transaction are in the store for the transactions that
\* follow
RECURSIVE StoreWith(_, _)
StoreWith(st, us) ==
    IF us = <<>> THEN st ELSE StoreWith(MapPut(st, UtxoId(Head(us)), Head(us)), Tail(us))

RECURSIVE ValidateTransactionsIncremental(_, _, _, _, _)
ValidateTransactionsIncremental(st, mp, txs, b, ctx) ==
    LET Checked(r) ==
            IF r.err # NoErr THEN r
            ELSE ValidateTransactionsIncremental(
                     StoreWith(st, NewUtxos(Head(txs), b.height)), mp, Tail(txs), b,
                     r.context)
    IN
    IF txs = <<>> THEN [err |-> NoErr, context |-> ctx]
    ELSE Checked(validate_transaction(st, mp, Head(txs), b, ctx))

\* The loop of validate_block over block.transactions
RECURSIVE ValidateTransactions(_, _, _, _, _)
ValidateTransactions(st, mp, txs, b, ctx) ==
    LET Checked(r) ==
            IF r.err # NoErr THEN r
            ELSE ValidateTransactions(st, mp, Tail(txs), b, r.context)
    IN
    IF txs = <<>> THEN [err |-> NoErr, context |-> ctx]
    ELSE Checked(validate_transaction(st, mp, Head(txs), b, ctx))

\* validate_block if it resolved the inputs incrementally, in the loop of
\* verify as in its own loop
RECURSIVE StoreWithOutputs(_, _, _)
StoreWithOutputs(st, txs, height) ==
    IF txs = <<>> THEN st
    ELSE StoreWithOutputs(StoreWith(st, NewUtxos(Head(txs), height)), Tail(txs), height)

validate_block_incremental(st, mp, recent, b, prev, refs) ==
    LET Rejected(e, rec) ==
            [ok |-> FALSE, err |-> e, context |-> EmptyContext, recent |-> rec]
        Checked(t, rec) ==
            IF t.err # NoErr THEN Rejected(t.err, rec)
            ELSE [ok |-> TRUE, err |-> NoErr, context |-> t.context, recent |-> rec]
        Verified(e, rec) ==
            IF e # NoErr THEN Rejected(e, rec)
            ELSE Checked(ValidateTransactionsIncremental(st, mp, b.transactions, b,
                                                         EmptyContext), rec)
        Consensus(c) ==
            IF c.err # NoErr THEN Rejected(c.err, c.recent)
            ELSE Verified(verify(b, prev, StoreWithOutputs(st, b.transactions, b.height)),
                          c.recent)
    IN Consensus(consensus_validate_block(recent, b, prev, refs))

\* BlockValidator.validate_block(block, prev_block, cross_shard_refs):
\* (valid, error, context) and the _recent_blocks the consensus is left with
validate_block(st, mp, recent, b, prev, refs) ==
    LET Rejected(e, rec) ==
            [ok |-> FALSE, err |-> e, context |-> EmptyContext, recent |-> rec]
        Checked(t, rec) ==
            IF t.err # NoErr THEN Rejected(t.err, rec)
            ELSE [ok |-> TRUE, err |-> NoErr, context |-> t.context, recent |-> rec]
        Verified(e, rec) ==
            IF e # NoErr THEN Rejected(e, rec)
            ELSE Checked(ValidateTransactions(st, mp, b.transactions, b,
                                              EmptyContext), rec)
        Consensus(c) ==
            IF c.err # NoErr THEN Rejected(c.err, c.recent)
            ELSE Verified(verify(b, prev, st), c.recent)
    IN Consensus(consensus_validate_block(recent, b, prev, refs))

\* An order in which a set of ids is iterated
RECURSIVE SetToSeq(_)
SetToSeq(S) ==
    IF S = {} THEN <<>>
    ELSE LET x == CHOOSE y \in S : TRUE IN <<x>> \o SetToSeq(S \ {x})

\* A loop of remove_utxo calls over ids, stopped by the first one that raises
RECURSIVE RemoveEach(_, _)
RemoveEach(st, ids) ==
    IF ids = <<>> THEN [raised |-> FALSE, utxos |-> st]
    ELSE LET r == remove_utxo(st, Head(ids)) IN
         IF r.raised THEN r ELSE RemoveEach(r.utxos, Tail(ids))

\* A loop of add_utxo calls, stopped by the first one that raises
RECURSIVE AddEach(_, _)
AddEach(st, us) ==
    IF us = <<>> THEN [raised |-> FALSE, utxos |-> st]
    ELSE LET r == add_utxo(st, Head(us)) IN
         IF r.raised THEN r ELSE AddEach(r.utxos, Tail(us))

\* The loop of apply_block over block.transactions: execute, then add_utxo of
\* each new UTXO
RECURSIVE ExecuteEach(_, _, _)
ExecuteEach(st, txs, height) ==
    LET Added(a) ==
            IF a.raised THEN [err |-> "Block application error", utxos |-> a.utxos]
            ELSE ExecuteEach(a.utxos, Tail(txs), height)
        Executed(x) ==
            IF ~x.ok THEN [err |-> "Failed to execute transaction", utxos |-> st]
            ELSE Added(AddEach(st, x.new_utxos))
    IN
    IF txs = <<>> THEN [err |-> NoErr, utxos |-> st]
    ELSE Executed(execute(st, Head(txs), height))

RECURSIVE RemoveFromMempool(_, _)
RemoveFromMempool(mp, txs) ==
    IF txs = <<>> THEN mp
    ELSE RemoveFromMempool(remove_transaction(mp, Head(txs).tx_id), Tail(txs))

\* BlockValidator.apply_block(block, context).  The set spent_utxos is
\* iterated in an unspecified order; the order only shows when some but not
\* all of its ids are missing from the store.
apply_block(st, mp, b, ctx) ==
    LET Executed(ex) ==
            IF ex.err # NoErr
            THEN [ok |-> FALSE, err |-> ex.err, utxos |-> ex.utxos, mempool |-> mp]
            ELSE [ok |-> TRUE, err |-> NoErr, utxos |-> ex.utxos,
                  mempool |-> RemoveFromMempool(mp, b.transactions)]
        Removed(rm) ==
            IF rm.raised
            THEN [ok |-> FALSE, err |-> "Block application error",
                  utxos |-> rm.utxos, mempool |-> mp]
            ELSE Executed(ExecuteEach(rm.utxos, b.transactions, b.height))
    IN Removed(RemoveEach(st, SetToSeq(ctx.spent_utxos)))

\* all inputs of the transactions of a block, in order
RECURSIVE AllInputs(_)
AllInputs(txs) == IF txs = <<>> THEN <<>> ELSE Head(txs).inputs \o AllInputs(Tail(txs))

\* The loop of revert_block that returns the transactions to the mempool;
\* the result of add_transaction is ignored
RECURSIVE ReturnToMempool(_, _, _)
ReturnToMempool(mp, st, txs) ==
    IF txs = <<>> THEN mp
    ELSE ReturnToMempool(add_transaction(mp, st, Head(txs)).mempool, st, Tail(txs))

\* BlockValidator.revert_block(block, context): remove_utxo of every key of
\* created_utxos; then, for every input found by get_utxo, add_utxo of the
\* UTXO that was found (which raises, the id being stored); then
\* add_transaction of every transaction
revert_block(st, mp, b, ctx) ==
    LET Removed(rm) ==
            IF rm.raised
            THEN [ok |-> FALSE, err |-> "Block reversion error",
                  utxos |-> rm.utxos, mempool |-> mp]
            ELSE IF \E i \in DOMAIN AllInputs(b.transactions) :
                        has_utxo(rm.utxos, AllInputs(b.transactions)[i])
            THEN [ok |-> FALSE, err |-> "Block reversion error",
                  utxos |-> rm.utxos, mempool |-> mp]
            ELSE [ok |-> TRUE, err |-> NoErr, utxos |-> rm.utxos,
                  mempool |-> ReturnToMempool(mp, rm.utxos, b.transactions)]
    IN Removed(RemoveEach(st, ctx.created_utxos))

\* -------------------------------------------------------------------------
\* FractalBlockchain
\* The object state is a record S = [blocks, heads, main_head, orphans,
\* cross_refs, utxos, mempool, recent]: blocks maps block_hash -> block,
\* heads maps block_hash -> ChainHead, orphans is the dict in insertion order
\* as a sequence of [prev_hash, block], cross_refs maps shard id -> set of
\* block hashes; utxos and mempool are the collaborators of the validator,
\* recent is ShardConsensus._recent_blocks.
\* -------------------------------------------------------------------------

ChainHead(b, height, total_difficulty, ctx) ==
    [block |-> b, height |-> height, total_difficulty |-> total_difficulty,
     validation_context |-> ctx]

\* main_head = None
NoHead == ChainHead(NoBlock, 0, 0, EmptyContext)

OrphanKeys(orphans) == {orphans[i].prev_hash : i \in DOMAIN orphans}

OrphanBlocks(orphans) == {orphans[i].block : i \in DOMAIN orphans}

\* self.orphans.setdefault(prev_hash, block): an existing key keeps its value
OrphanPutIfAbsent(orphans, k, b) ==
    IF k \in OrphanKeys(orphans) THEN orphans
    ELSE Append(orphans, [prev_hash |-> k, block |-> b])

\* self.orphans[prev_hash] = block: a new key goes last, an existing key
\* keeps its place and gets the new value
OrphanPut(orphans, k, b) ==
    IF k \in OrphanKeys(orphans)
    THEN [i \in DOMAIN orphans |->
             IF orphans[i].prev_hash = k THEN [prev_hash |-> k, block |-> b]
             ELSE orphans[i]]
    ELSE Append(orphans, [prev_hash |-> k, block |-> b])

RECURSIVE OrphanDel(_, _)
OrphanDel(orphans, keys) ==
    IF orphans = <<>> THEN <<>>
    ELSE IF Head(orphans).prev_hash \in keys THEN OrphanDel(Tail(orphans), keys)
    ELSE <<Head(orphans)>> \o OrphanDel(Tail(orphans), keys)

\* the duplicate test made on the hash of the parent instead of the block
AlreadyHaveByPrev(S, b) == b.prev_hash \in DOMAIN S.blocks

\* add_block: "if block.block_hash in self.blocks"
AlreadyHave(S, b) == b.block_hash \in DOMAIN S.blocks

\* add_block: parent = self.blocks.get(block.header.prev_hash)
ParentKnown(S, b) == b.prev_hash \in DOMAIN S.blocks

\* add_block: parent_head = self.heads.get(parent.block_hash)
ParentIsHead(S, b) == b.prev_hash \in DOMAIN S.heads

\* a new head whose total_difficulty accumulates work, 2^difficulty per block
NewHeadWork(parent_head, b, ctx) ==
    ChainHead(b, parent_head.height + 1,
              parent_head.total_difficulty + 2^b.difficulty, ctx)

\* add_block: the new ChainHead
NewHead(parent_head, b, ctx) ==
    ChainHead(b, parent_head.height + 1,
              parent_head.total_difficulty + b.difficulty, ctx)

\* add_block: "not self.main_head or new_head.total_difficulty >
\* self.main_head.total_difficulty"
BetterThanMain(S, new_head) ==
    S.main_head = NoHead \/ new_head.total_difficulty > S.main_head.total_difficulty

\* add_block: insert block and head, delete the head of the parent
Install(S, b, new_head) ==
    [S EXCEPT !.blocks = MapPut(S.blocks, b.block_hash, b),
              !.heads = MapDel(MapPut(S.heads, b.block_hash, new_head), b.prev_hash)]

\* _reorganize_chain, the three while loops that walk back to the common
\* ancestor, one after the other (loop = 1, 2, 3); self.blocks[...] raises
\* KeyError for a hash that is not stored
RECURSIVE WalkBack(_, _, _, _, _, _)
WalkBack(blocks, loop, old, new, old_blocks, new_blocks) ==
    IF loop = 1
    THEN IF old.height > new.height
         THEN IF old.prev_hash \notin DOMAIN blocks
              THEN [raised |-> TRUE, old_blocks |-> old_blocks, new_blocks |-> new_blocks]
              ELSE WalkBack(blocks, 1, blocks[old.prev_hash], new,
                            Append(old_blocks, old), new_blocks)
         ELSE WalkBack(blocks, 2, old, new, old_blocks, new_blocks)
    ELSE IF loop = 2
    THEN IF new.height > old.height
         THEN IF new.prev_hash \notin DOMAIN blocks
              THEN [raised |-> TRUE, old_blocks |-> old_blocks, new_blocks |-> new_blocks]
              ELSE WalkBack(blocks, 2, old, blocks[new.prev_hash],
                            old_blocks, <<new>> \o new_blocks)
         ELSE WalkBack(blocks, 3, old, new, old_blocks, new_blocks)
    ELSE IF old.block_hash # new.block_hash
    THEN IF old.prev_hash \notin DOMAIN blocks \/ new.prev_hash \notin DOMAIN blocks
         THEN [raised |-> TRUE, old_blocks |-> Append(old_blocks, old),
               new_blocks |-> <<new>> \o new_blocks]
         ELSE WalkBack(blocks, 3, blocks[old.prev_hash], blocks[new.prev_hash],
                       Append(old_blocks, old), <<new>> \o new_blocks)
    ELSE [raised |-> FALSE, old_blocks |-> old_blocks, new_blocks |-> new_blocks]

\* _reorganize_chain, "Revert old chain": self.heads[...] raises KeyError for
\* a block that is not a head; the result of revert_block is ignored
RECURSIVE RevertOld(_, _)
RevertOld(S, bs) ==
    LET Reverted(r) ==
            RevertOld([S EXCEPT !.utxos = r.utxos, !.mempool = r.mempool], Tail(bs))
    IN
    IF bs = <<>> THEN [raised |-> FALSE, S |-> S]
    ELSE IF Head(bs).block_hash \notin DOMAIN S.heads THEN [raised |-> TRUE, S |-> S]
    ELSE Reverted(revert_block(S.utxos, S.mempool, Head(bs),
                               S.heads[Head(bs).block_hash].validation_context))

\* _reorganize_chain, "Apply new chain"
RECURSIVE ApplyNew(_, _)
ApplyNew(S, bs) ==
    LET Applied(r) ==
            ApplyNew([S EXCEPT !.utxos = r.utxos, !.mempool = r.mempool], Tail(bs))
    IN
    IF bs = <<>> THEN [raised |-> FALSE, S |-> S]
    ELSE IF Head(bs).block_hash \notin DOMAIN S.heads THEN [raised |-> TRUE, S |-> S]
    ELSE Applied(apply_block(S.utxos, S.mempool, Head(bs),
                             S.heads[Head(bs).block_hash].validation_context))

\* _reorganize_chain(new_head)
reorganize_chain(S, new_head) ==
    LET Applied(ap) ==
            IF ap.raised THEN ap
            ELSE [raised |-> FALSE, S |-> [ap.S EXCEPT !.main_head = new_head]]
        Reverted(rv, new_blocks) ==
            IF rv.raised THEN rv ELSE Applied(ApplyNew(rv.S, new_blocks))
        Walked(w) ==
            IF w.raised THEN [raised |-> TRUE, S |-> S]
            ELSE Reverted(RevertOld(S, w.old_blocks), w.new_blocks)
    IN
    IF S.main_head = NoHead
    THEN [raised |-> FALSE, S |-> [S EXCEPT !.main_head = new_head]]
    ELSE Walked(WalkBack(S.blocks, 1, S.main_head.block, new_head.block, <<>>, <<>>))

\* _reorganize_chain, "Apply new chain": the blocks that the loop hands to
\* apply_block before it ends or self.heads[...] raises
RECURSIVE AppliedOf(_, _)
AppliedOf(heads_, bs) ==
    IF bs = <<>> \/ Head(bs).block_hash \notin DOMAIN heads_ THEN <<>>
    ELSE <<Head(bs)>> \o AppliedOf(heads_, Tail(bs))

\* the blocks that _reorganize_chain(new_head) hands to apply_block
ReorgApplied(S, new_head) ==
    LET Reverted(rv, new_blocks) ==
            IF rv.raised THEN <<>> ELSE AppliedOf(S.heads, new_blocks)
        Walked(w) ==
            IF w.raised THEN <<>>
            ELSE Reverted(RevertOld(S, w.old_blocks), w.new_blocks)
    IN
    IF S.main_head = NoHead THEN <<>>
    ELSE Walked(WalkBack(S.blocks, 1, S.main_head.block, new_head.block, <<>>, <<>>))

\* _update_cross_refs(block)
update_cross_refs(S, b) ==
    [S EXCEPT !.cross_refs =
        [s \in (DOMAIN S.cross_refs) \cup b.cross_shard_refs |->
            (IF s \in DOMAIN S.cross_refs THEN S.cross_refs[s] ELSE {})
            \cup (IF s \in b.cross_shard_refs THEN {b.block_hash} ELSE {})]]

RECURSIVE add_block(_, _, _)
RECURSIVE OrphanFor(_, _, _, _, _)
RECURSIVE OrphanWhile(_, _)

\* _process_orphans, the body of the for loop for the entry at position i
\* whose parent is stored: r is what self.add_block(orphan) returned
OrphanAdded(r, items, i, processed, added) ==
    IF r.ok
    THEN OrphanFor(r.S, items, i + 1, processed \cup {items[i].prev_hash}, TRUE)
    ELSE OrphanFor(r.S, items, i + 1, processed, added)

\* _process_orphans, one "for prev_hash, orphan in self.orphans.items()" loop.
\* items is the dict as it was when the iterator was made and i the position
\* of the iterator.  The dict iterator raises RuntimeError ("dictionary
\* changed size during iteration") when it is advanced after the dict has
\* changed size, which a nested _process_orphans does by deleting entries.
OrphanFor(S, items, i, processed, added) ==
    IF Len(S.orphans) # Len(items)
    THEN [raised |-> TRUE, S |-> S, processed |-> processed, added |-> added]
    ELSE IF i > Len(items)
    THEN [raised |-> FALSE, S |-> S, processed |-> processed, added |-> added]
    ELSE IF items[i].prev_hash \notin processed /\ items[i].prev_hash \in DOMAIN S.blocks
    THEN OrphanAdded(add_block(S, items[i].block, {}), items, i, processed, added)
    ELSE OrphanFor(S, items, i + 1, processed, added)

\* _process_orphans after one for loop that returned f: the "while True"
\* loop goes on when a block was added; otherwise the final
\* "del self.orphans[prev_hash]" of every processed key (KeyError when the
\* key is gone)
OrphanLooped(f) ==
    IF f.raised THEN [raised |-> TRUE, S |-> f.S]
    ELSE IF f.added THEN OrphanWhile(f.S, f.processed)
    ELSE [raised |-> ~(f.processed \subseteq OrphanKeys(f.S.orphans)),
          S |-> [f.S EXCEPT !.orphans = OrphanDel(f.S.orphans, f.processed)]]

\* _process_orphans, the "while True" loop
OrphanWhile(S, processed) == OrphanLooped(OrphanFor(S, S.orphans, 1, processed, FALSE))

\* _process_orphans()
process_orphans(S) == OrphanWhile(S, {})

\* add_block, the end: po is the outcome of _process_orphans; an exception
\* is caught by the except clause of add_block
AddOrphansProcessed(po, b) ==
    IF po.raised THEN [S |-> po.S, ok |-> FALSE, err |-> "Block addition error"]
    ELSE [S |-> update_cross_refs(po.S, b), ok |-> TRUE, err |-> NoErr]

\* add_block after "Update main chain if needed": rg is the outcome of
\* _reorganize_chain
AddMainUpdated(rg, b) ==
    IF rg.raised THEN [S |-> rg.S, ok |-> FALSE, err |-> "Block addition error"]
    ELSE AddOrphansProcessed(process_orphans(rg.S), b)

\* add_block, from "Add block and head" on: S is the state with the block
\* and its head installed
AddInstalled(S, b, new_head) ==
    AddMainUpdated(IF BetterThanMain(S, new_head) THEN reorganize_chain(S, new_head)
                ELSE [raised |-> FALSE, S |-> S], b)

\* add_block, from "Apply block state changes" on: a is what apply_block
\* returned
AddApplied(S, b, new_head, a) ==
    IF ~a.ok
    THEN [S |-> [S EXCEPT !.utxos = a.utxos, !.mempool = a.mempool],
          ok |-> FALSE, err |-> a.err]
    ELSE AddInstalled(Install([S EXCEPT !.utxos = a.utxos, !.mempool = a.mempool],
                           b, new_head), b, new_head)

\* add_block, from the result v of validate_block on
AddValidated(S, b, v) ==
    IF ~v.ok THEN [S |-> [S EXCEPT !.recent = v.recent], ok |-> FALSE, err |-> v.err]
    ELSE AddApplied([S EXCEPT !.recent = v.recent], b,
                 NewHead(S.heads[b.prev_hash], b, v.context),
                 apply_block(S.utxos, S.mempool, b, v.context))

\* FractalBlockchain.add_block(block, cross_shard_refs)
add_block(S, b, refs) ==
    IF AlreadyHave(S, b) THEN [S |-> S, ok |-> TRUE, err |-> NoErr]
    ELSE IF ~ParentKnown(S, b)
    THEN [S |-> [S EXCEPT !.orphans = OrphanPut(S.orphans, b.prev_hash, b)],
          ok |-> FALSE, err |-> "Missing parent block"]
    ELSE IF ~ParentIsHead(S, b)
    THEN [S |-> S, ok |-> FALSE, err |-> "Parent not at chain head"]
    ELSE AddValidated(S, b, validate_block(S.utxos, S.mempool, S.recent, b,
                                        S.blocks[b.prev_hash], refs))

\* get_block_height returns None
NoHeight == -1

\* validate_chain(max_blocks = None)
NoLimit == -1

\* get_block_height(block_hash): the height of the ChainHead that self.heads
\* holds for the hash
get_block_height(S, block_hash) ==
    IF block_hash \in DOMAIN S.heads THEN S.heads[block_hash].height ELSE NoHeight

\* get_blocks_after, the while loop: current goes in front of result and the
\* walk moves to its parent; self.blocks[...] raises KeyError for a hash
\* that is not stored
RECURSIVE BlocksAfterWalk(_, _, _, _, _)
BlocksAfterWalk(blocks_, block_hash, max_blocks, current, result) ==
    IF current.prev_hash # block_hash /\ Len(result) < max_blocks
    THEN IF current.prev_hash \notin DOMAIN blocks_
         THEN [raised |-> TRUE, blocks |-> <<current>> \o result]
         ELSE BlocksAfterWalk(blocks_, block_hash, max_blocks,
                              blocks_[current.prev_hash], <<current>> \o result)
    ELSE [raised |-> FALSE, blocks |-> result]

\* get_blocks_after(block_hash, max_blocks)
get_blocks_after(S, block_hash, max_blocks) ==
    IF S.main_head = NoHead \/ block_hash \notin DOMAIN S.blocks
    THEN [raised |-> FALSE, blocks |-> <<>>]
    ELSE BlocksAfterWalk(S.blocks, block_hash, max_blocks, S.main_head.block, <<>>)

\* validate_chain, the while loop.  The references handed to the validator
\* are looked up in self.cross_refs[shard_id] under the hash of the
\* referenced block, where add_block files the blocks of this chain under
\* their own hash: none is found.
RECURSIVE ChainWalk(_, _, _, _, _)
ChainWalk(S, max_blocks, current, count, rec) ==
    LET Validated(v, prev_block) ==
            IF ~v.ok THEN [ok |-> FALSE, err |-> "Invalid block", recent |-> v.recent]
            ELSE ChainWalk(S, max_blocks, prev_block, count + 1, v.recent)
    IN
    IF current = NoBlock \/ ~(max_blocks = NoLimit \/ count < max_blocks)
    THEN [ok |-> TRUE, err |-> NoErr, recent |-> rec]
    ELSE IF current.prev_hash = ZeroHash
    THEN [ok |-> TRUE, err |-> NoErr, recent |-> rec]
    ELSE IF current.prev_hash \notin DOMAIN S.blocks
    THEN [ok |-> FALSE, err |-> "Missing block", recent |-> rec]
    ELSE Validated(validate_block(S.utxos, S.mempool, rec, current,
                                  S.blocks[current.prev_hash], {}),
                   S.blocks[current.prev_hash])

\* validate_chain(max_blocks)
validate_chain(S, max_blocks) ==
    IF S.main_head = NoHead THEN [ok |-> TRUE, err |-> NoErr, recent |-> S.recent]
    ELSE ChainWalk(S, max_blocks, S.main_head.block, 0, S.recent)

\* _initialize_genesis without the assignment of main_head
initialize_genesis_no_main(S, genesis) ==
    LET Validated(v) ==
            [S EXCEPT !.blocks = MapPut(S.blocks, genesis.block_hash, genesis),
                      !.heads = MapPut(S.heads, genesis.block_hash,
                                       ChainHead(genesis, 0, genesis.difficulty,
                                                 v.context)),
                      !.recent = v.recent]
    IN Validated(validate_block(S.utxos, S.mempool, S.recent, genesis, NoBlock, {}))

\* _initialize_genesis(genesis) for a genesis block that validate_block
\* accepts (it raises ValueError otherwise and no chain is constructed)
initialize_genesis(S, genesis) ==
    LET Installed(head, rec) ==
            [S EXCEPT !.blocks = MapPut(S.blocks, genesis.block_hash, genesis),
                      !.heads = MapPut(S.heads, genesis.block_hash, head),
                      !.main_head = head,
                      !.recent = rec]
        Validated(v) ==
            Installed(ChainHead(genesis, 0, genesis.difficulty, v.context), v.recent)
    IN Validated(validate_block(S.utxos, S.mempool, S.recent, genesis, NoBlock, {}))

\* FractalBlockchain.__init__ before the genesis block is installed, around a
\* validator whose store holds st
NewChain(st) ==
    [blocks |-> EmptyMap, heads |-> EmptyMap, main_head |-> NoHead,
     orphans |-> <<>>, cross_refs |-> EmptyMap,
     utxos |-> st, mempool |-> EmptyMempool, recent |-> <<>>]

\* -------------------------------------------------------------------------
\* The inputs of the calls: UTXOs, transactions and blocks
\* -------------------------------------------------------------------------

Coord1 == <<1>>

U0 == FractalUTXO(10, 5, Coord1, 0, "OP_CHECKSIG")
U1 == FractalUTXO(11, 5, Coord1, 0, "OP_CHECKSIG")
U2 == FractalUTXO(12, 5, Coord1, 0, "OP_CHECKSIG")

\* the store the validator is constructed around
SeedStore == AddEach(EmptyMap, <<U0, U1, U2>>).utxos

Output(owner, amount) ==
    [owner_address |-> owner, amount |-> amount, coordinate |-> Coord1,
     script |-> "OP_CHECKSIG"]

Transaction(id, ins, outs) ==
    [tx_id |-> id, inputs |-> ins, outputs |-> outs, size |-> 100]

\* spends U0 (the transaction of the genesis block)
TG == Transaction(1, <<UtxoId(U0)>>, <<Output(20, 5)>>)
\* spends U1, fee 1
T1 == Transaction(2, <<UtxoId(U1)>>, <<Output(21, 4)>>)
\* spends U2, fee 1
T2 == Transaction(3, <<UtxoId(U2)>>, <<Output(22, 4)>>)
\* spends U2 like T2, fee 0
T3 == Transaction(4, <<UtxoId(U2)>>, <<Output(23, 5)>>)
\* spends U1 like T1
T1b == Transaction(5, <<UtxoId(U1)>>, <<Output(24, 3)>>)
\* lists U2 twice and pays out more than U2 holds
T4 == Transaction(6, <<UtxoId(U2), UtxoId(U2)>>, <<Output(25, 8)>>)
\* one input, two outputs
T5 == Transaction(7, <<UtxoId(U2)>>, <<Output(26, 2), Output(27, 2)>>)

\* spends the UTXO that T1 creates in a block of height 1
T6 == Transaction(8, <<UtxoId(NewUtxos(T1, 1)[1])>>, <<Output(28, 3)>>)

\* spends U2 and pays the same owner the same amount twice
T7 == Transaction(9, <<UtxoId(U2)>>, <<Output(29, 2), Output(29, 2)>>)

Transactions == {T1, T3, T4}

\* A mined block of shard 1 with difficulty 1: mine() builds the mesh root
\* over the transactions and finds a hash that meets the target
Block(hash, prev, height, ts, txs, refs) ==
    [block_hash |-> hash, zero_bits |-> 1, prev_hash |-> prev,
     merkle_mesh_root |-> MeshRoot(txs), timestamp |-> ts, difficulty |-> 1,
     height |-> height, coordinate |-> Coord1, cross_shard_refs |-> refs,
     transactions |-> txs, cross_shard_proofs |-> {}]

G == Block(1, ZeroHash, 0, Now - 10, <<TG>>, {})
\* the chain G <- B1 <- B2 <- B3
B1 == Block(2, 1, 1, Now - 9, <<T1>>, {})
B2 == Block(3, 2, 2, Now - 8, <<T2>>, {})
B3 == Block(4, 3, 3, Now - 7, <<T3>>, {})
\* the competing branch G <- B1p <- B2p
B1p == Block(5, 1, 1, Now - 6, <<T2>>, {})
B2p == Block(6, 5, 2, Now - 5, <<T1>>, {})
\* a second child of B1, whose header references shard 2
X == Block(7, 2, 2, Now - 4, <<T3>>, {2})
\* two transactions that spend the same UTXO
D1 == Block(8, 1, 1, Now - 3, <<T1, T1b>>, {})
\* one transaction that lists the same UTXO twice
D2 == Block(9, 1, 1, Now - 3, <<T4>>, {})
\* two transactions, two inputs, three outputs
M == Block(10, 1, 1, Now - 2, <<T1, T5>>, {})

\* a child of G whose header references shard 2
BR == Block(11, 1, 1, Now - 1, <<T3>>, {2})

Blocks == {G, B1, B2, B3, B1p, B2p, X, D1, D2, M, BR}

\* a child of G whose second transaction spends the output of its first
BD == Block(12, 1, 1, Now - 1, <<T1, T6>>, {})

\* a child of G whose transaction has two equal outputs
BI == Block(14, 1, 1, Now - 2, <<T7>>, {})

\* a mined child of G with no transactions: mine() builds a mesh without
\* leaves, whose root stays None
E1 == Block(15, 1, 1, Now - 1, <<>>, {})

\* a mined genesis block with no transactions
EG == Block(16, ZeroHash, 0, Now - 10, <<>>, {})

\* the blocks above came out of mine(), which sets block_hash to the digest
\* of the header with the nonce it found
MinedBlocks == Blocks \cup {BD, BI, E1, EG}

\* a child of G that mine() never saw: its block_hash is a value picked to
\* lie under the target
HP == Block(13, 1, 1, Now - 1, <<T2>>, {})

\* the header fields that _compute_hash serializes (the nonce is the one
\* mine() found for them)
Header(b) ==
    <<b.prev_hash, b.merkle_mesh_root, b.timestamp, b.difficulty, b.height,
      b.coordinate, b.cross_shard_refs>>

\* _compute_hash(): the SHA-256 digest of the header fields, which is the
\* block_hash of the block mined from these fields and some other value (99)
\* for fields nobody mined
compute_hash(b) ==
    IF \E m \in MinedBlocks : Header(m) = Header(b)
    THEN (CHOOSE m \in MinedBlocks : Header(m) = Header(b)).block_hash
    ELSE 99

\* the blocks handed to the validator
ValidatorBlocks == Blocks \cup {BD, HP, BI}

\* the cross_shard_refs arguments tried with a block
RefChoices(b) == IF b.cross_shard_refs = {} THEN {{}} ELSE {{}, b.cross_shard_refs}

\* -------------------------------------------------------------------------
\* The state machine: one FractalBlockchain with its BlockValidator,
\* ShardConsensus, UTXOStorage and TransactionMempool, and the calls made on
\* them from outside
\* -------------------------------------------------------------------------

VARIABLES
    blocks,      \* FractalBlockchain.blocks
    heads,       \* FractalBlockchain.heads
    main_head,   \* FractalBlockchain.main_head
    orphans,     \* FractalBlockchain.orphans
    cross_refs,  \* FractalBlockchain.cross_refs
    utxos,       \* UTXOStorage._utxos
    mempool,     \* TransactionMempool
    recent,      \* ShardConsensus._recent_blocks
    ret,         \* the last call and what it returned
    v_block,     \* the block of the last validate_block that was accepted
    v_context,   \* the context that validate_block returned for it
    pre_apply,   \* the UTXO store as it was when apply_block was called
    s4,          \* progress of the call sequence B1, B2, B1p, B2p (-1: left)
    s5,          \* progress of the call sequence B3, B2, B1 (-1: left)
    mesh,        \* a MerkleMesh: its leaves and its root hash
    cross_proof, \* a CrossShardProof
    storage,     \* a UTXOStorage with its spatial index and its shard index
    indexer,     \* a UTXOSpatialIndexer
    consensus,   \* a ShardConsensus with its own parameters
    writer       \* the add_block call that is under way, step by step

vars == <<blocks, heads, main_head, orphans, cross_refs, utxos, mempool, recent,
          ret, v_block, v_context, pre_apply, s4, s5, mesh, cross_proof,
          storage, indexer, consensus, writer>>

\* the objects that stand apart from the chain, its validator and its
\* mempool, and the call under way
components == <<mesh, cross_proof, storage, indexer, consensus, writer>>

\* no add_block call is under way
Idle == [pc |-> "idle", block |-> NoBlock, context |-> EmptyContext, spent |-> <<>>]

\* these objects as they are constructed
NewComponents ==
    /\ mesh = MerkleMesh
    /\ cross_proof = CrossShardProof(<<1>>, 1, {2})
    /\ storage = UTXOStorage(FALSE)
    /\ indexer = UTXOSpatialIndexer(FALSE)
    /\ consensus = ShardConsensus(ShardId, TargetBlockTime, DifficultyAdjustmentWindow,
                                  MaxDifficultyChange, InitialDifficulty)
    /\ writer = Idle

\* the object state as the record the operators work on
State ==
    [blocks |-> blocks, heads |-> heads, main_head |-> main_head,
     orphans |-> orphans, cross_refs |-> cross_refs,
     utxos |-> utxos, mempool |-> mempool, recent |-> recent]

SetState(S) ==
    /\ blocks' = S.blocks
    /\ heads' = S.heads
    /\ main_head' = S.main_head
    /\ orphans' = S.orphans
    /\ cross_refs' = S.cross_refs
    /\ utxos' = S.utxos
    /\ mempool' = S.mempool
    /\ recent' = S.recent

Return(op, arg, ok, err) == [op |-> op, arg |-> arg, ok |-> ok, err |-> err]

ForkSequence == <<B1, B2, B1p, B2p>>

ReverseSequence == <<B3, B2, B1>>

\* the progress of a call sequence after add_block(b)
Advance(s, sequence, b) ==
    IF s >= 0 /\ s < Len(sequence) /\ sequence[s + 1] = b THEN s + 1 ELSE -1

NoSession ==
    /\ v_block' = NoBlock
    /\ v_context' = EmptyContext
    /\ pre_apply' = EmptyMap

\* The chain is constructed with the genesis block G, which the validator
\* accepts, around the seeded store and an empty mempool
Init ==
    /\ validate_block(SeedStore, EmptyMempool, <<>>, G, NoBlock, {}).ok
    /\ LET S == initialize_genesis(NewChain(SeedStore), G) IN
          /\ blocks = S.blocks
          /\ heads = S.heads
          /\ main_head = S.main_head
          /\ orphans = S.orphans
          /\ cross_refs = S.cross_refs
          /\ utxos = S.utxos
          /\ mempool = S.mempool
          /\ recent = S.recent
    /\ ret = Return("init", G.block_hash, TRUE, NoErr)
    /\ v_block = NoBlock
    /\ v_context = EmptyContext
    /\ pre_apply = EmptyMap
    /\ s4 = 0
    /\ s5 = 0
    /\ NewComponents

\* FractalBlockchain.add_block(b, refs)
AddBlockCall(b, refs) ==
    LET r == add_block(State, b, refs) IN
    /\ Len(r.S.recent) <= MaxRecent
    /\ SetState(r.S)
    /\ ret' = Return("add_block", b.block_hash, r.ok, r.err)
    /\ s4' = (IF refs = {} THEN Advance(s4, ForkSequence, b) ELSE -1)
    /\ s5' = (IF refs = {} THEN Advance(s5, ReverseSequence, b) ELSE -1)
    /\ NoSession
    /\ UNCHANGED components

\* TransactionMempool.add_transaction(tx, utxo_storage, current_height)
AddTransactionCall(tx) ==
    LET r == add_transaction(mempool, utxos, tx) IN
    /\ mempool' = r.mempool
    /\ ret' = Return("add_transaction", tx.tx_id, r.ok, r.err)
    /\ s4' = -1
    /\ s5' = -1
    /\ NoSession
    /\ UNCHANGED <<blocks, heads, main_head, orphans, cross_refs, utxos, recent>>
    /\ UNCHANGED components

\* BlockValidator.validate_block(b, prev, refs) called directly
ValidateBlockCall(b, prev, refs) ==
    LET r == validate_block(utxos, mempool, recent, b, prev, refs) IN
    /\ Len(r.recent) <= MaxRecent
    /\ recent' = r.recent
    /\ ret' = Return("validate_block", b.block_hash, r.ok, r.err)
    /\ v_block' = (IF r.ok THEN b ELSE NoBlock)
    /\ v_context' = r.context
    /\ pre_apply' = EmptyMap
    /\ s4' = -1
    /\ s5' = -1
    /\ UNCHANGED <<blocks, heads, main_head, orphans, cross_refs, utxos, mempool>>
    /\ UNCHANGED components

\* BlockValidator.apply_block(block, context) with the block that was just
\* accepted and the context returned for it
ApplyBlockCall ==
    /\ ret.op = "validate_block"
    /\ ret.ok
    /\ LET r == apply_block(utxos, mempool, v_block, v_context) IN
          /\ utxos' = r.utxos
          /\ mempool' = r.mempool
          /\ ret' = Return("apply_block", v_block.block_hash, r.ok, r.err)
    /\ pre_apply' = utxos
    /\ UNCHANGED <<blocks, heads, main_head, orphans, cross_refs, recent,
                   v_block, v_context, s4, s5>>
    /\ UNCHANGED components

\* BlockValidator.revert_block(block, context) right after apply_block, with
\* the same block and context
RevertBlockCall ==
    /\ ret.op = "apply_block"
    /\ LET r == revert_block(utxos, mempool, v_block, v_context) IN
          /\ utxos' = r.utxos
          /\ mempool' = r.mempool
          /\ ret' = Return("revert_block", v_block.block_hash, r.ok, r.err)
    /\ UNCHANGED <<blocks, heads, main_head, orphans, cross_refs, recent,
                   v_block, v_context, pre_apply, s4, s5>>
    /\ UNCHANGED components

\* the blocks a caller can pass as prev_block: none, or a block of the chain
PrevChoices == {NoBlock} \cup {blocks[h] : h \in DOMAIN blocks}

\* The node driven through its interface: blocks and transactions arrive
Next ==
    \/ \E b \in Blocks : \E refs \in RefChoices(b) : AddBlockCall(b, refs)
    \/ \E tx \in Transactions : AddTransactionCall(tx)

Spec == Init /\ [][Next]_vars

\* The validator of the node driven directly, the way the chain engine and
\* the unit tests drive it: validate_block, then apply_block with the
\* returned context, then revert_block
ValidatorNext ==
    \/ \E tx \in Transactions : AddTransactionCall(tx)
    \/ \E b \in ValidatorBlocks : \E prev \in PrevChoices : \E refs \in RefChoices(b) :
           ValidateBlockCall(b, prev, refs)
    \/ ApplyBlockCall
    \/ RevertBlockCall

ValidatorSpec == Init /\ [][ValidatorNext]_vars

\* The node with its read queries: blocks arrive, and the chain is queried
\* and revalidated in between
QueryFrame ==
    /\ UNCHANGED <<blocks, heads, main_head, orphans, cross_refs, utxos, mempool,
                   v_block, v_context, pre_apply, s4, s5>>
    /\ UNCHANGED components

\* the hashes asked for: the genesis block, B1 and a hash no block has
QueryHashes == {G.block_hash, B1.block_hash, 99}

GetBlockHeightCall(block_hash) ==
    /\ ret' = Return("get_block_height",
                     [block_hash |-> block_hash,
                      height |-> get_block_height(State, block_hash)], TRUE, NoErr)
    /\ UNCHANGED recent
    /\ QueryFrame

\* the result as the list of the hashes of the blocks returned
GetBlocksAfterCall(block_hash, max_blocks) ==
    LET Returned(r) ==
            ret' = Return("get_blocks_after",
                          [block_hash |-> block_hash, max_blocks |-> max_blocks,
                           hashes |-> [i \in DOMAIN r.blocks |-> r.blocks[i].block_hash]],
                          ~r.raised, NoErr)
    IN /\ Returned(get_blocks_after(State, block_hash, max_blocks))
       /\ UNCHANGED recent
       /\ QueryFrame

ValidateChainCall(max_blocks) ==
    LET Returned(r) ==
            /\ Len(r.recent) <= MaxRecent
            /\ recent' = r.recent
            /\ ret' = Return("validate_chain", max_blocks, r.ok, r.err)
    IN /\ Returned(validate_chain(State, max_blocks))
       /\ QueryFrame

QueryNext ==
    \/ \E b \in Blocks : \E refs \in RefChoices(b) : AddBlockCall(b, refs)
    \/ \E h \in QueryHashes : GetBlockHeightCall(h)
    \/ \E h \in QueryHashes, max_blocks \in {1, 1000} : GetBlocksAfterCall(h, max_blocks)
    \/ \E max_blocks \in {NoLimit, 0, 1} : ValidateChainCall(max_blocks)

QuerySpec == Init /\ [][QueryNext]_vars

\* The chain engine past the point where the validator of the repository
\* stops every block: add_block for a block that it takes up to "Apply block
\* state changes", continued from there as FractalBlockchain continues when
\* the (bool, error) that self.validator.apply_block answers is (True, None).
\* Everything else, the store that apply_block leaves included, is as in
\* add_block.
AddBlockAppliedCall(b, refs) ==
    LET S == State
        Continued(r) ==
            /\ Len(r.S.recent) <= MaxRecent
            /\ SetState(r.S)
            /\ ret' = Return("add_block", b.block_hash, r.ok, r.err)
        Validated(v) ==
            /\ v.ok
            /\ Continued(AddApplied([S EXCEPT !.recent = v.recent], b,
                                    NewHead(S.heads[b.prev_hash], b, v.context),
                                    [apply_block(S.utxos, S.mempool, b, v.context)
                                        EXCEPT !.ok = TRUE]))
    IN /\ ~AlreadyHave(S, b)
       /\ ParentKnown(S, b)
       /\ ParentIsHead(S, b)
       /\ Validated(validate_block(S.utxos, S.mempool, S.recent, b,
                                   S.blocks[b.prev_hash], refs))
       /\ UNCHANGED <<s4, s5>>
       /\ NoSession
       /\ UNCHANGED components

ChainNext ==
    \/ \E b \in Blocks \cup {E1} : \E refs \in RefChoices(b) : AddBlockCall(b, refs)
    \/ \E b \in Blocks : \E refs \in RefChoices(b) : AddBlockAppliedCall(b, refs)
    \/ \E h \in QueryHashes : GetBlockHeightCall(h)
    \/ \E max_blocks \in {NoLimit, 0, 1} : ValidateChainCall(max_blocks)

ChainSpec == Init /\ [][ChainNext]_vars

\* The node with a reader beside the caller of add_block.  Neither
\* FractalBlockchain nor BlockValidator, the store or the mempool takes a
\* lock, so a query made from a second thread runs between any two calls
\* that add_block makes on the store.  The loop of apply_block that removes
\* the spent UTXOs is taken call by call; what add_block does before it and
\* after it is taken as one step each.

\* add_block(b, refs) up to "Apply block state changes", for a block that
\* gets there: the block is validated and apply_block is entered
AddBlockEnter(b, refs) ==
    LET S == State
        Validated(v) ==
            /\ v.ok
            /\ Len(v.recent) <= MaxRecent
            /\ recent' = v.recent
            /\ writer' = [pc |-> "remove", block |-> b, context |-> v.context,
                          spent |-> SetToSeq(v.context.spent_utxos)]
    IN /\ writer.pc = "idle"
       /\ ~AlreadyHave(S, b)
       /\ ParentKnown(S, b)
       /\ ParentIsHead(S, b)
       /\ Validated(validate_block(S.utxos, S.mempool, S.recent, b,
                                   S.blocks[b.prev_hash], refs))
       /\ UNCHANGED <<blocks, heads, main_head, orphans, cross_refs, utxos, mempool,
                      ret, v_block, v_context, pre_apply, s4, s5>>
       /\ UNCHANGED <<mesh, cross_proof, storage, indexer, consensus>>

\* apply_block, one turn of "for utxo_id in context.spent_utxos": an
\* exception ends apply_block and, with its (False, error), add_block
ApplyRemoveStep ==
    LET Removed(r) ==
            /\ utxos' = r.utxos
            /\ IF r.raised
               THEN /\ writer' = Idle
                    /\ ret' = Return("add_block", writer.block.block_hash, FALSE,
                                     "Block application error")
               ELSE /\ writer' = [writer EXCEPT !.spent = Tail(writer.spent)]
                    /\ UNCHANGED ret
    IN /\ writer.pc = "remove"
       /\ writer.spent # <<>>
       /\ Removed(remove_utxo(utxos, Head(writer.spent)))
       /\ UNCHANGED <<blocks, heads, main_head, orphans, cross_refs, mempool, recent,
                      v_block, v_context, pre_apply, s4, s5>>
       /\ UNCHANGED <<mesh, cross_proof, storage, indexer, consensus>>

\* apply_block from "Add new UTXOs" on, and add_block from its answer on
ApplyExecuteStep ==
    LET S == State
        b == writer.block
        Returned(r) ==
            /\ SetState(r.S)
            /\ ret' = Return("add_block", b.block_hash, r.ok, r.err)
        Executed(ex) ==
            Returned(AddApplied(S, b, NewHead(S.heads[b.prev_hash], b, writer.context),
                                IF ex.err # NoErr
                                THEN [ok |-> FALSE, err |-> ex.err, utxos |-> ex.utxos,
                                      mempool |-> S.mempool]
                                ELSE [ok |-> TRUE, err |-> NoErr, utxos |-> ex.utxos,
                                      mempool |-> RemoveFromMempool(S.mempool,
                                                                    b.transactions)]))
    IN /\ writer.pc = "remove"
       /\ writer.spent = <<>>
       /\ Executed(ExecuteEach(S.utxos, b.transactions, b.height))
       /\ writer' = Idle
       /\ UNCHANGED <<v_block, v_context, pre_apply, s4, s5>>
       /\ UNCHANGED <<mesh, cross_proof, storage, indexer, consensus>>

\* UTXOStorage.get_utxo(utxo_id) from the reader
GetUtxoCall(utxo_id) ==
    /\ ret' = Return("get_utxo", utxo_id, utxo_id \in DOMAIN utxos, NoErr)
    /\ UNCHANGED recent
    /\ QueryFrame

\* FractalBlockchain.get_block(block_hash) from the reader
GetBlockCall(block_hash) ==
    /\ ret' = Return("get_block", block_hash, block_hash \in DOMAIN blocks, NoErr)
    /\ UNCHANGED recent
    /\ QueryFrame

\* FractalBlockchain.get_chain_head() from the reader
GetChainHeadCall ==
    /\ ret' = Return("get_chain_head",
                     IF main_head = NoHead THEN NoHash ELSE main_head.block.block_hash,
                     main_head # NoHead, NoErr)
    /\ UNCHANGED recent
    /\ QueryFrame

ConcurrentNext ==
    \/ \E b \in Blocks : \E refs \in RefChoices(b) : AddBlockEnter(b, refs)
    \/ ApplyRemoveStep
    \/ ApplyExecuteStep
    \/ \E u \in {U0, U1, U2} : GetUtxoCall(UtxoId(u))
    \/ \E h \in QueryHashes : GetBlockCall(h)
    \/ GetChainHeadCall

ConcurrentSpec == Init /\ [][ConcurrentNext]_vars

\* -------------------------------------------------------------------------
\* A TransactionMempool of small max_size on its own, over a store that is
\* not changed, driven through all of its mutating methods
\* -------------------------------------------------------------------------

PoolMaxSize == 3

Coord2 == <<2>>

\* the UTXOs of the store: amount 1000 each, in shard 1
Q(i) == FractalUTXO(30 + i, 1000, Coord1, 0, "OP_CHECKSIG")

PoolStore == AddEach(EmptyMap, <<Q(1), Q(2), Q(3), Q(4), Q(5)>>).utxos

\* Transactions 11..14 spend Q(1)..Q(4) with fee 500, 400, 300 and 600 at
\* size 100: fee rates 5, 4, 3 and 6.  15 spends Q(5) at fee rate 2 with
\* outputs in shard 1 and in shard 2; 16 spends Q(1) like 11, fee rate 7;
\* 17 pays no fee; 18 pays out more than its input holds.
PoolTransactions ==
    {Transaction(11, <<UtxoId(Q(1))>>, <<Output(41, 500)>>),
     Transaction(12, <<UtxoId(Q(2))>>, <<Output(42, 600)>>),
     Transaction(13, <<UtxoId(Q(3))>>, <<Output(43, 700)>>),
     Transaction(14, <<UtxoId(Q(4))>>, <<Output(44, 400)>>),
     Transaction(15, <<UtxoId(Q(5))>>,
                 <<Output(45, 400), [Output(46, 400) EXCEPT !.coordinate = Coord2]>>),
     Transaction(16, <<UtxoId(Q(1))>>, <<Output(47, 300)>>),
     Transaction(17, <<UtxoId(Q(4))>>, <<Output(48, 1000)>>),
     Transaction(18, <<UtxoId(Q(2))>>, <<Output(49, 1001)>>)}

PoolBlockIds == {1}

\* a store and a mempool of max_size PoolMaxSize, no chain around them
PoolChainInit ==
    /\ LET S == NewChain(PoolStore) IN
          /\ blocks = S.blocks
          /\ heads = S.heads
          /\ main_head = S.main_head
          /\ orphans = S.orphans
          /\ cross_refs = S.cross_refs
          /\ utxos = S.utxos
          /\ recent = S.recent
    /\ mempool = TransactionMempool(PoolMaxSize)
    /\ ret = Return("init", 0, TRUE, NoErr)
    /\ v_block = NoBlock
    /\ v_context = EmptyContext
    /\ pre_apply = EmptyMap
    /\ s4 = -1
    /\ s5 = -1

MempoolInit == PoolChainInit /\ NewComponents

\* a call on the mempool that returns nothing
MempoolCall(op, arg, mp) ==
    /\ mempool' = mp
    /\ ret' = Return(op, arg, TRUE, NoErr)
    /\ UNCHANGED <<blocks, heads, main_head, orphans, cross_refs, utxos, recent,
                   v_block, v_context, pre_apply, s4, s5>>
    /\ UNCHANGED components

\* TransactionMempool.remove_transaction(tx_id)
RemoveTransactionCall(tx_id) ==
    MempoolCall("remove_transaction", tx_id, remove_transaction(mempool, tx_id))

\* TransactionMempool.mark_included_in_block(tx_id, block_id)
MarkIncludedCall(tx_id, block_id) ==
    MempoolCall("mark_included_in_block", tx_id,
                mark_included_in_block(mempool, tx_id, block_id))

\* TransactionMempool.remove_block_transactions(block_id)
RemoveBlockTransactionsCall(block_id) ==
    MempoolCall("remove_block_transactions", block_id,
                remove_block_transactions(mempool, block_id))

\* TransactionMempool.clear()
ClearCall == MempoolCall("clear", 0, clear(mempool))

MempoolNext ==
    \/ \E tx \in PoolTransactions : AddTransactionCall(tx)
    \/ \E tx \in PoolTransactions : RemoveTransactionCall(tx.tx_id)
    \/ \E tx \in PoolTransactions : \E b \in PoolBlockIds :
           MarkIncludedCall(tx.tx_id, b)
    \/ \E b \in PoolBlockIds : RemoveBlockTransactionsCall(b)
    \/ ClearCall

MempoolSpec == MempoolInit /\ [][MempoolNext]_vars

\* -------------------------------------------------------------------------
\* A MerkleMesh on its own: leaves are added, the mesh is built, proofs are
\* generated and verified against the root hash
\* -------------------------------------------------------------------------

MaxLeaves == 4

\* the transaction hashes added as leaves
LeafHashes == {<<1>>, <<2>>, <<3>>}

\* mesh is left as the calls find it; nothing else exists
MeshFrame ==
    UNCHANGED <<blocks, heads, main_head, orphans, cross_refs, utxos, mempool,
                recent, v_block, v_context, pre_apply, s4, s5, cross_proof,
                storage, indexer, consensus, writer>>

\* MerkleMesh.add_transaction(tx_hash, coordinate)
MeshAddTransactionCall(h) ==
    /\ Len(mesh.leaves) < MaxLeaves
    /\ mesh' = mesh_add_transaction(mesh, h)
    /\ ret' = Return("mesh_add_transaction", h, TRUE, NoErr)
    /\ MeshFrame

\* MerkleMesh.build()
BuildCall ==
    /\ mesh' = build(mesh)
    /\ ret' = Return("build", Len(mesh.leaves), TRUE, NoErr)
    /\ MeshFrame

\* proof = MerkleMesh.get_proof(tx_hash); ok is FALSE when it raises
GetProofCall(h) ==
    LET r == get_proof(mesh, h) IN
    /\ ret' = Return("get_proof", [tx_hash |-> h, proof |-> r.proof], ~r.raised,
                     IF r.raised THEN "ValueError" ELSE NoErr)
    /\ UNCHANGED mesh
    /\ MeshFrame

\* MerkleMesh.verify_proof(tx_hash, proof, root_hash) with the proof that
\* get_proof just returned and the root hash of the mesh; ok is the result
VerifyProofCall ==
    /\ ret.op = "get_proof"
    /\ ret.ok
    /\ ret' = Return("verify_proof", ret.arg,
                     verify_proof(ret.arg.tx_hash, ret.arg.proof, mesh.root), NoErr)
    /\ UNCHANGED mesh
    /\ MeshFrame

MeshNext ==
    \/ \E h \in LeafHashes : MeshAddTransactionCall(h)
    \/ BuildCall
    \/ \E h \in LeafHashes : GetProofCall(h)
    \/ VerifyProofCall

\* the mesh starts empty; the store and the mempool next to it are not used
MeshSpec == MempoolInit /\ [][MeshNext]_vars

\* -------------------------------------------------------------------------
\* A CrossShardProof for transaction <<1>> with source_shard = 1 and
\* target_shards = {2}: elements are added and the proof is verified against
\* the mesh roots and block hashes of the two shards
\* -------------------------------------------------------------------------

MaxElements == 3

\* the mesh of either shard: the transaction and one more leaf
ShardLeaves == <<<<1>>, <<2>>>>

MeshRoots == [sh \in {1, 2} |-> BuildRoot(ShardLeaves)]

BlockHashes == [sh \in {1, 2} |-> 100 + sh]

\* elements of shards 1, 2 and 3, with the block hash of the shard or another
\* one, with the Merkle proof of the transaction or none, referencing "r" or "q"
ProofElements ==
    [block_hash : {101, 102},
     merkle_proof : {ProofPath(ShardLeaves, 1), <<>>},
     shard_id : {1, 2, 3},
     ref_hashes : {{"r"}, {"q"}}]

ProofFrame ==
    UNCHANGED <<blocks, heads, main_head, orphans, cross_refs, utxos, mempool,
                recent, v_block, v_context, pre_apply, s4, s5, mesh,
                storage, indexer, consensus, writer>>

\* CrossShardProof.add_element(element); ok is FALSE when it raises
AddElementCall(element) ==
    LET r == add_element(cross_proof, element) IN
    /\ Len(cross_proof.elements) < MaxElements
    /\ cross_proof' = r.proof
    /\ ret' = Return("add_element", element.shard_id, ~r.raised,
                     IF r.raised THEN "ValueError" ELSE NoErr)
    /\ ProofFrame

\* CrossShardProof.verify(mesh_roots, block_hashes)
VerifyCall ==
    LET r == verify_cross_shard_proof(cross_proof, MeshRoots, BlockHashes) IN
    /\ ret' = Return("verify", Len(cross_proof.elements), r.ok, r.err)
    /\ UNCHANGED cross_proof
    /\ ProofFrame

\* FractalBlock.add_transaction(transaction, proof), proof = None when given
\* is FALSE; mesh_roots and block_hashes are what the references of the
\* header split into.  The result is the ValueError raised, or the entry
\* made in cross_shard_proofs (none for a transaction added without proof)
block_add_transaction(tx, given, proof, mesh_roots, block_hashes) ==
    LET Verified(v) ==
            IF ~v.ok
            THEN [raised |-> TRUE, err |-> "Invalid cross-shard proof", stored |-> <<>>]
            ELSE [raised |-> FALSE, err |-> NoErr, stored |-> <<[key |-> tx.tx_id, proof |-> proof]>>]
    IN
    IF cross_shard(tx) /\ ~given
    THEN [raised |-> TRUE, err |-> "Cross-shard transaction requires proof", stored |-> <<>>]
    ELSE IF given /\ ~cross_shard(tx)
    THEN [raised |-> TRUE, err |-> "Non-cross-shard transaction cannot have proof",
          stored |-> <<>>]
    ELSE IF given THEN Verified(verify_cross_shard_proof(proof, mesh_roots, block_hashes))
    ELSE [raised |-> FALSE, err |-> NoErr, stored |-> <<>>]

\* transactions with one output in shard 1 and one in shard 2: XT1 is the
\* transaction with the hash <<1>>, for which the proof is built, XT2 the
\* one with the hash <<2>>; LT pays within shard 1
XT1 == [tx_id |-> <<1>>, inputs |-> <<UtxoId(U1)>>, size |-> 100,
        outputs |-> <<[owner_address |-> 31, amount |-> 2, coordinate |-> <<1>>,
                       script |-> "OP_CHECKSIG"],
                      [owner_address |-> 32, amount |-> 2, coordinate |-> <<2>>,
                       script |-> "OP_CHECKSIG"]>>]
XT2 == [XT1 EXCEPT !.tx_id = <<2>>, !.inputs = <<UtxoId(U2)>>]
LT == [XT1 EXCEPT !.tx_id = <<3>>,
                  !.outputs = <<[owner_address |-> 33, amount |-> 4, coordinate |-> <<1>>,
                                 script |-> "OP_CHECKSIG"]>>]

\* block.add_transaction(tx, proof) on a block of shard 1 whose header
\* references give MeshRoots and BlockHashes, with the proof as it stands
BlockAddTransactionCall(tx, given) ==
    LET r == block_add_transaction(tx, given, cross_proof, MeshRoots, BlockHashes) IN
    /\ ret' = Return("block.add_transaction", [tx |-> tx, stored |-> r.stored],
                     ~r.raised, r.err)
    /\ UNCHANGED cross_proof
    /\ ProofFrame

ProofNext ==
    \/ \E element \in ProofElements : AddElementCall(element)
    \/ VerifyCall
    \/ \E tx \in {XT1, XT2, LT}, given \in BOOLEAN : BlockAddTransactionCall(tx, given)

\* the proof starts without elements; the store and the mempool are not used
ProofSpec == MempoolInit /\ [][ProofNext]_vars

\* -------------------------------------------------------------------------
\* A UTXOStorage on its own: add_utxo, with or without a statement of its
\* try block raising, and remove_utxo
\* -------------------------------------------------------------------------

\* the UTXOs offered to the storage: two owners, shards 1 and 2
StorageUtxos ==
    {FractalUTXO(o, 5, c, 0, "OP_CHECKSIG") : o \in {40, 41}, c \in {Coord1, Coord2}}

StorageFrame ==
    UNCHANGED <<blocks, heads, main_head, orphans, cross_refs, utxos, mempool,
                recent, v_block, v_context, pre_apply, s4, s5, mesh, cross_proof,
                indexer, consensus, writer>>

\* the storage and the indexer as they are constructed, scipy being
\* installed or not
StorageInit ==
    /\ PoolChainInit
    /\ mesh = MerkleMesh
    /\ cross_proof = CrossShardProof(<<1>>, 1, {2})
    /\ consensus = ShardConsensus(ShardId, TargetBlockTime, DifficultyAdjustmentWindow,
                                  MaxDifficultyChange, InitialDifficulty)
    /\ writer = Idle
    /\ \E scipy \in BOOLEAN :
          /\ storage = UTXOStorage(scipy)
          /\ indexer = UTXOSpatialIndexer(scipy)

AddUtxoCall(utxo, fault) ==
    LET Returned(r) ==
            /\ storage' = r.storage
            /\ ret' = Return("add_utxo", [utxo |-> utxo, fault |-> fault], ~r.raised, NoErr)
    IN /\ Returned(storage_add_utxo(storage, utxo, fault))
       /\ StorageFrame

RemoveUtxoCall(utxo_id) ==
    LET Returned(r) ==
            /\ storage' = r.storage
            /\ ret' = Return("remove_utxo", utxo_id, ~r.raised, NoErr)
    IN /\ Returned(storage_remove_utxo(storage, utxo_id))
       /\ StorageFrame

StorageNext ==
    \/ \E utxo \in StorageUtxos, fault \in AddUtxoFaults : AddUtxoCall(utxo, fault)
    \/ \E utxo \in StorageUtxos : RemoveUtxoCall(UtxoId(utxo))

StorageSpec == StorageInit /\ [][StorageNext]_vars

\* -------------------------------------------------------------------------
\* A UTXOSpatialIndexer on its own.  The indexer is used the way UTXOStorage
\* uses it: an id is inserted when it is not indexed and removed with the
\* point it was inserted with.
\* -------------------------------------------------------------------------

IndexIds == {1, 2, 3}
IndexPoints == {<<0, 0>>, <<1, 0>>, <<3, 1>>, <<6, 6>>}
Radii == {0, 1, 3, 4}

IndexFrame ==
    UNCHANGED <<blocks, heads, main_head, orphans, cross_refs, utxos, mempool,
                recent, v_block, v_context, pre_apply, s4, s5, mesh, cross_proof,
                storage, consensus, writer>>

\* the ids in the list of ids
Indexed(ix) == {ix.ids[i] : i \in DOMAIN ix.ids}

\* the point an indexed id was inserted with
PointOf(ix, utxo_id) == ix.points[CHOOSE i \in DOMAIN ix.ids : ix.ids[i] = utxo_id]

InsertCall(utxo_id, coord) ==
    /\ utxo_id \notin Indexed(indexer)
    /\ indexer' = insert(indexer, utxo_id, coord, "none").index
    /\ ret' = Return("insert", [utxo_id |-> utxo_id, coord |-> coord], TRUE, NoErr)
    /\ IndexFrame

RemoveCall(utxo_id) ==
    /\ utxo_id \in Indexed(indexer)
    /\ indexer' = remove(indexer, utxo_id, PointOf(indexer, utxo_id))
    /\ ret' = Return("remove", utxo_id, TRUE, NoErr)
    /\ IndexFrame

RebuildIndexCall ==
    /\ indexer' = rebuild_index(indexer)
    /\ ret' = Return("rebuild_index", 0, TRUE, NoErr)
    /\ IndexFrame

QueryRangeCall(center, radius) ==
    /\ ret' = Return("query_range",
                     [center |-> center, radius |-> radius,
                      ids |-> query_range(indexer, center, radius)], TRUE, NoErr)
    /\ UNCHANGED indexer
    /\ IndexFrame

IndexNext ==
    \/ \E utxo_id \in IndexIds, coord \in IndexPoints : InsertCall(utxo_id, coord)
    \/ \E utxo_id \in IndexIds : RemoveCall(utxo_id)
    \/ RebuildIndexCall
    \/ \E center \in IndexPoints, radius \in Radii : QueryRangeCall(center, radius)

IndexSpec == StorageInit /\ [][IndexNext]_vars

\* -------------------------------------------------------------------------
\* FractalCoordinate.to_cartesian and ShardConsensus._validate_coordinate on
\* every coordinate up to MaxDepth
\* -------------------------------------------------------------------------

\* the paths over {0, 1, 2} of length at most MaxDepth
Coordinates == UNION {[1..d -> {0, 1, 2}] : d \in 0..MaxDepth}

\* 2 ** n
RECURSIVE Pow2(_)
Pow2(n) == IF n = 0 THEN 1 ELSE 2 * Pow2(n - 1)

\* the unit of the exact conversion: x is counted in 1 / CartesianUnit and
\* y in sqrt(3) / CartesianUnit, so that every step of the loop is whole
CartesianUnit == 12 * Pow2(MaxDepth)

\* the loop of to_cartesian from move k on: scale is CartesianUnit / 2 ** k
RECURSIVE CartesianWalk(_, _, _, _)
CartesianWalk(path, k, x, y) ==
    IF k > Len(path) THEN <<x, y>>
    ELSE LET scale == CartesianUnit \div Pow2(k)
             move == path[k]
         IN CASE move = 0 -> CartesianWalk(path, k + 1, x - scale \div 2, y + scale \div 4)
              [] move = 1 -> CartesianWalk(path, k + 1, x, y + scale \div 2)
              [] move = 2 -> CartesianWalk(path, k + 1, x + scale \div 2, y + scale \div 4)
              [] OTHER -> CartesianWalk(path, k + 1, x, y)

\* FractalCoordinate.to_cartesian(), exact: <<x, y>> stands for the point
\* (x / CartesianUnit, y * sqrt(3) / CartesianUnit); the walk starts at the
\* centroid (1/2, sqrt(3)/6)
to_cartesian_exact(coord) ==
    CartesianWalk(coord, 1, CartesianUnit \div 2, CartesianUnit \div 6)

ToCartesianCall(coord) ==
    /\ ret' = Return("to_cartesian",
                     [coordinate |-> coord, point |-> to_cartesian_exact(coord)],
                     TRUE, NoErr)
    /\ UNCHANGED <<blocks, heads, main_head, orphans, cross_refs, utxos, mempool,
                   recent, v_block, v_context, pre_apply, s4, s5>>
    /\ UNCHANGED components

\* ShardConsensus(shard_id)._validate_coordinate(coord)
ValidateCoordinateCall(shard_id, coord) ==
    /\ ret' = Return("_validate_coordinate",
                     [shard_id |-> shard_id, coordinate |-> coord],
                     validate_coordinate(shard_id, coord), NoErr)
    /\ UNCHANGED <<blocks, heads, main_head, orphans, cross_refs, utxos, mempool,
                   recent, v_block, v_context, pre_apply, s4, s5>>
    /\ UNCHANGED components

CoordinateNext ==
    \/ \E coord \in Coordinates : ToCartesianCall(coord)
    \/ \E shard_id \in 0..MaxShard, coord \in Coordinates :
          ValidateCoordinateCall(shard_id, coord)

CoordinateSpec == MempoolInit /\ [][CoordinateNext]_vars

\* -------------------------------------------------------------------------
\* A ShardConsensus on its own: shard 1, target_block_time 10 as in the
\* tests, a window of ConsensusWindow blocks, initial_difficulty 1 or 16
\* -------------------------------------------------------------------------

TestTargetBlockTime == 10

\* timestamps: three in the past, 30, 20 and 0 seconds ago, and one more
\* than the tolerance ahead
Timestamps == {Now - 30, Now - 20, Now, Now + FutureTolerance + 1}

Difficulties == {1, InitialDifficulty, InitialDifficulty + 4}

\* a mined block of shard 1 whose hash meets every difficulty of the model
ConsensusBlock(timestamp, difficulty) ==
    [NoBlock EXCEPT !.block_hash = 1, !.zero_bits = 32, !.timestamp = timestamp,
                    !.difficulty = difficulty, !.height = 1, !.coordinate = Coord1]

ConsensusBlocks == {ConsensusBlock(t, d) : t \in Timestamps, d \in Difficulties}

ConsensusFrame ==
    UNCHANGED <<blocks, heads, main_head, orphans, cross_refs, utxos, mempool,
                recent, v_block, v_context, pre_apply, s4, s5, mesh, cross_proof,
                storage, indexer, writer>>

ConsensusInit ==
    /\ PoolChainInit
    /\ mesh = MerkleMesh
    /\ cross_proof = CrossShardProof(<<1>>, 1, {2})
    /\ storage = UTXOStorage(FALSE)
    /\ indexer = UTXOSpatialIndexer(FALSE)
    /\ writer = Idle
    /\ \E initial \in {1, InitialDifficulty} :
          consensus = ShardConsensus(ShardId, TestTargetBlockTime, ConsensusWindow,
                                     MaxDifficultyChange, initial)

\* get_next_difficulty(prev): ret keeps the window as it was used
GetNextDifficultyCall(prev) ==
    LET Returned(nd) ==
            /\ consensus' = nd.consensus
            /\ ret' = Return("get_next_difficulty",
                             [prev |-> prev, value |-> nd.value], ~nd.raised, NoErr)
    IN /\ Returned(ShardConsensus_get_next_difficulty(consensus, prev))
       /\ ConsensusFrame

\* validate_block(block, prev) with no cross-shard references supplied
ConsensusValidateBlockCall(b, prev) ==
    LET Returned(r) ==
            /\ consensus' = r.consensus
            /\ ret' = Return("consensus.validate_block",
                             [block |-> b, prev |-> prev], r.err = NoErr, r.err)
    IN /\ Returned(ShardConsensus_validate_block(consensus, b, prev, {}, Now))
       /\ ConsensusFrame

ConsensusNext ==
    \/ \E prev \in ConsensusBlocks : GetNextDifficultyCall(prev)
    \/ \E b \in ConsensusBlocks, prev \in ConsensusBlocks \cup {NoBlock} :
          ConsensusValidateBlockCall(b, prev)

ConsensusSpec == ConsensusInit /\ [][ConsensusNext]_vars

\* -------------------------------------------------------------------------
\* Properties
\* -------------------------------------------------------------------------

\* the block hashes stored in blocks
Stored == DOMAIN blocks

\* no value occurs twice in a sequence
Distinct(seq) == \A i, j \in DOMAIN seq : i # j => seq[i] # seq[j]

\* the UTXOs apply_block has to create for a block: one per output of every
\* transaction, with creation_height = the height of the block
RECURSIVE OutputUtxos(_, _)
OutputUtxos(txs, height) ==
    IF txs = <<>> THEN {}
    ELSE {NewUtxos(Head(txs), height)[i] : i \in DOMAIN Head(txs).outputs}
         \cup OutputUtxos(Tail(txs), height)

\* C1: for a block accepted by validate_block with context C, in the store
\* state in which it was accepted, apply_block(B, C) followed by
\* revert_block(B, C) leaves the UTXO store exactly as it was before
\* apply_block (same ids, same contents).
C1_ApplyRevertRestoresStore ==
    ret.op = "revert_block" => utxos = pre_apply

\* C2: an add_block call that returns (False, error) leaves the UTXO store
\* and the mempool as they were before the call.
C2_FailedAddKeepsStoreAndMempool ==
    [][(ret'.op = "add_block" /\ ~ret'.ok) => (utxos' = utxos /\ mempool' = mempool)]_vars

C4_MainHeadIsBestHead ==
    /\ \E h \in DOMAIN heads : heads[h] = main_head
    /\ \A h \in DOMAIN heads : heads[h].total_difficulty <= main_head.total_difficulty

\* add_block calls were made, valid blocks among them, and main_head is the
\* one head there is
C4_MainHeadAfterAdds ==
    /\ ret.op = "add_block"
    /\ Len(recent) = MaxRecent
    /\ orphans # <<>>
    /\ DOMAIN heads = {main_head.block.block_hash}

\* C5: after add_block of B1, B2 (on G), then B1p (on G) and B2p (on B1p),
\* main_head is B2p and blocks contains G, B1, B2, B1p and B2p.
C5_ForkIsAccepted ==
    s4 = Len(ForkSequence) =>
        /\ main_head.block = B2p
        /\ {G.block_hash, B1.block_hash, B2.block_hash,
            B1p.block_hash, B2p.block_hash} \subseteq Stored

\* C6: after add_block(B3), add_block(B2), add_block(B1) on the chain
\* G <- B1 <- B2 <- B3, main_head is B3, B1, B2 and B3 are in blocks and
\* orphans is empty.
C6_ReverseOrderAdmitsAll ==
    s5 = Len(ReverseSequence) =>
        /\ main_head.block = B3
        /\ {B1.block_hash, B2.block_hash, B3.block_hash} \subseteq Stored
        /\ orphans = <<>>

\* C7: no parked orphan is lost: a block that is in orphans stays there
\* until it is admitted to blocks, also when another block waiting for the
\* same parent is parked.
C7_NoOrphanLost ==
    [][\A b \in OrphanBlocks(orphans) :
           b \in OrphanBlocks(orphans') \/ b.block_hash \in DOMAIN blocks']_vars

\* C8: a block accepted by validate_block, and every block in blocks,
\* references no utxo_id twice in the inputs of its transactions, be it in
\* two transactions or in one.
C8_AcceptedBlockSpendsOnce ==
    /\ (ret.op = "validate_block" /\ ret.ok) => Distinct(AllInputs(v_block.transactions))
    /\ \A h \in Stored : Distinct(AllInputs(blocks[h].transactions))

\* validate_block accepted a block with two transactions
C8_AcceptedSeveralTransactions ==
    /\ ret.op = "validate_block"
    /\ ret.ok
    /\ Len(v_block.transactions) = 2
    /\ Cardinality(v_context.spent_utxos) = 2

\* C9: for a block B with at least one transaction that validate_block
\* accepted with context C, apply_block(B, C) on the store in which B was
\* validated succeeds; afterwards no id of C.spent_utxos is in the store, one
\* UTXO per output of B with creation_height = B's height is, and no
\* transaction of B is in the mempool.
C9_ApplyAcceptedBlock ==
    (ret.op = "apply_block" /\ v_block.transactions # <<>>) =>
        /\ ret.ok
        /\ \A id \in v_context.spent_utxos : ~has_utxo(utxos, id)
        /\ \A u \in OutputUtxos(v_block.transactions, v_block.height) :
               has_utxo(utxos, UtxoId(u)) /\ utxos[UtxoId(u)] = u
        /\ \A i \in DOMAIN v_block.transactions :
               v_block.transactions[i].tx_id \notin DOMAIN mempool.transactions

\* C10: add_block of a block whose block_hash is already in blocks returns
\* (True, None) and changes none of blocks, heads, main_head, orphans,
\* cross_refs, the UTXO store and the mempool.
C10_DuplicateAddIsNoOp ==
    [][(ret'.op = "add_block" /\ ret'.arg \in DOMAIN blocks) =>
          /\ ret'.ok
          /\ ret'.err = NoErr
          /\ UNCHANGED <<blocks, heads, main_head, orphans, cross_refs,
                         utxos, mempool>>]_vars

\* the genesis block was added again, with orphans parked and a transaction
\* pooled, and the call returned (True, None)
C10_DuplicateAddSeen ==
    /\ ret = Return("add_block", G.block_hash, TRUE, NoErr)
    /\ G.block_hash \in Stored
    /\ orphans # <<>>
    /\ DOMAIN mempool.transactions # {}

\* the block argument of the add_block call that ret reports
BlockOfHash(h) == CHOOSE b \in Blocks : b.block_hash = h

\* add_block parked b under its prev_hash and touched nothing else
ParkedOnly(b) ==
    /\ ~ret'.ok
    /\ ret'.err = "Missing parent block"
    /\ \E i \in DOMAIN orphans' :
           orphans'[i] = [prev_hash |-> b.prev_hash, block |-> b]
    /\ UNCHANGED <<blocks, heads, main_head, cross_refs, utxos, mempool>>

\* C11 as stated: add_block of a block whose prev_hash is not in blocks
\* returns failure with a missing-parent error, records the block in orphans
\* under its prev_hash and leaves blocks, heads, main_head, cross_refs, the
\* UTXO store and the mempool unchanged.
C11_MissingParentParks ==
    [][(ret'.op = "add_block" /\ BlockOfHash(ret'.arg).prev_hash \notin DOMAIN blocks)
          => ParkedOnly(BlockOfHash(ret'.arg))]_vars

\* C11: add_block of a block that is not in blocks and whose prev_hash is not
\* in blocks returns failure with a missing-parent error, records the block
\* in orphans under its prev_hash and leaves blocks, heads, main_head,
\* cross_refs, the UTXO store and the mempool unchanged.
C11_NewBlockMissingParentParks ==
    [][(/\ ret'.op = "add_block"
        /\ ret'.arg \notin DOMAIN blocks
        /\ BlockOfHash(ret'.arg).prev_hash \notin DOMAIN blocks)
          => ParkedOnly(BlockOfHash(ret'.arg))]_vars

\* a block was parked while another block was waiting for the same parent
C11_SecondOrphanParked ==
    /\ ret = Return("add_block", X.block_hash, FALSE, "Missing parent block")
    /\ Len(orphans) = 2
    /\ X \in OrphanBlocks(orphans)
    /\ B2 \notin OrphanBlocks(orphans)

\* C12: when the mempool holds max_size entries and add_transaction is called
\* with a valid transaction whose fee rate is higher than the lowest fee rate
\* in the pool, the lowest-fee entry is evicted and the new transaction is
\* admitted, so that the pool still holds max_size entries.
C12_FullPoolEvictsLowest ==
    [][\A tx \in PoolTransactions :
          LET fee == InputSum(utxos, tx.inputs) - OutputSum(tx.outputs)
              low == mempool.transactions[LowestFee(mempool)]
          IN (/\ ret'.op = "add_transaction"
              /\ ret'.arg = tx.tx_id
              /\ Cardinality(DOMAIN mempool.transactions) = mempool.max_size
              /\ tx.tx_id \notin DOMAIN mempool.transactions
              /\ validate(utxos, tx, mempool, TRUE).ok
              /\ fee * low.transaction.size > low.fee * tx.size)
             => /\ ret'.ok
                /\ DOMAIN mempool'.transactions =
                       (DOMAIN mempool.transactions \ {LowestFee(mempool)})
                       \cup {tx.tx_id}]_vars

\* the pooled transactions that list utxo_id u among their inputs
Spenders(mp, u) ==
    {t \in DOMAIN mp.transactions : u \in SeqToSet(mp.transactions[t].transaction.inputs)}

C14_IndexesConsistent ==
    /\ \A u \in (DOMAIN utxos) \cup (DOMAIN mempool.spent_utxos) :
          /\ is_utxo_spent(mempool, u) <=> Spenders(mempool, u) # {}
          /\ is_utxo_spent(mempool, u) => mempool.spent_utxos[u] \in Spenders(mempool, u)
    /\ \A sh \in DOMAIN mempool.shard_txs :
          mempool.shard_txs[sh] \subseteq DOMAIN mempool.transactions
    /\ \A t \in DOMAIN mempool.transactions :
          \A sh \in {0, 1, 2} \cup DOMAIN mempool.shard_txs :
             (sh \in DOMAIN mempool.shard_txs /\ t \in mempool.shard_txs[sh])
               <=> sh \in OutputShards(mempool.transactions[t].transaction)
    /\ ret.op = "remove_transaction" =>
          /\ ret.arg \notin DOMAIN mempool.transactions
          /\ \A sh \in DOMAIN mempool.shard_txs : ret.arg \notin mempool.shard_txs[sh]
          /\ \A u \in DOMAIN mempool.spent_utxos : mempool.spent_utxos[u] # ret.arg

\* a transaction was removed from a pool that still holds the transaction
\* with outputs in two shards, which is alone under shard 2
C14_RemovedNextToCrossShard ==
    /\ ret.op = "remove_transaction"
    /\ ret.arg = 11
    /\ DOMAIN mempool.transactions = {12, 15}
    /\ mempool.shard_txs = (1 :> {12, 15}) @@ (2 :> {15})
    /\ DOMAIN mempool.spent_utxos = {UtxoId(Q(2)), UtxoId(Q(5))}

\* C15: when add_transaction returns failure (duplicate tx_id, failed
\* validation, fee rate below min_fee_per_byte, or mempool full), the
\* transaction index, the shard index and the spent-UTXO index are unchanged.
C15_FailedAddTransactionKeepsIndexes ==
    [][(ret'.op = "add_transaction" /\ ~ret'.ok) =>
          /\ mempool'.transactions = mempool.transactions
          /\ mempool'.shard_txs = mempool.shard_txs
          /\ mempool'.spent_utxos = mempool.spent_utxos]_vars

\* a valid transaction was refused by a full pool, which holds what it held
C15_RefusedByFullPool ==
    /\ ret = Return("add_transaction", 14, FALSE, "Mempool full")
    /\ DOMAIN mempool.transactions = {11, 12, 13}
    /\ DOMAIN mempool.spent_utxos = {UtxoId(Q(1)), UtxoId(Q(2)), UtxoId(Q(3))}

\* C16: for a non-empty list of leaves (one leaf, even and odd counts) and a
\* leaf t of it, after build() verify_proof(t, get_proof(t), root_hash) is
\* true; for a single leaf the proof is empty and verifies.
C16_MeshRoundTrip ==
    (/\ ret.op = "verify_proof"
     /\ mesh.root = BuildRoot(mesh.leaves)) => ret.ok

\* C17: CrossShardProof.verify with source_shard = 1 and target_shards = {2},
\* one element per shard, matching block hashes and mesh roots, returns true
\* when the two elements share a ref hash and returns false with a
\* missing-cross-references error when their ref_hashes are disjoint.
C17_VerifyNeedsSharedRef ==
    LET e == cross_proof.elements IN
    (/\ ret.op = "verify"
     /\ Len(e) = 2
     /\ {e[1].shard_id, e[2].shard_id} = {1, 2}
     /\ \A i \in 1..2 :
           /\ e[i].block_hash = BlockHashes[e[i].shard_id]
           /\ verify_proof(cross_proof.tx_hash, e[i].merkle_proof,
                           MeshRoots[e[i].shard_id]))
    => IF e[1].ref_hashes \cap e[2].ref_hashes # {}
       THEN ret.ok
       ELSE ~ret.ok /\ ret.err = "Missing cross-shard references"

\* C18: add_utxo of a UTXO whose id is already stored fails, and remove_utxo
\* of an id that is not stored fails; both leave the main map, the shard
\* index and the spatial index as they were.
C18_RejectedCallsChangeNothing ==
    [][(\/ /\ ret'.op = "add_utxo"
           /\ UtxoId(ret'.arg.utxo) \in DOMAIN storage.utxos
        \/ /\ ret'.op = "remove_utxo"
           /\ ret'.arg \notin DOMAIN storage.utxos)
       => /\ ~ret'.ok
          /\ storage'.utxos = storage.utxos
          /\ storage'.shard_indices = storage.shard_indices
          /\ storage'.spatial_index = storage.spatial_index]_vars

\* an unknown id was refused by remove_utxo while both shards hold UTXOs
C18_UnknownIdRefused ==
    /\ ret.op = "remove_utxo"
    /\ ~ret.ok
    /\ ret.arg \notin DOMAIN storage.utxos
    /\ DOMAIN storage.shard_indices = {1, 2}
    /\ \A sh \in {1, 2} : storage.shard_indices[sh] # <<>>

\* C19: add_utxo is atomic: when a statement of its try block raises while
\* the spatial index or the shard index is updated, the call fails and the
\* main map, the shard index (its set of shard keys included) and the
\* spatial index are exactly as before the call.
C19_FailedAddUtxoRestoresIndexes ==
    [][(/\ ret'.op = "add_utxo"
        /\ ret'.arg.fault # "none"
        /\ UtxoId(ret'.arg.utxo) \notin DOMAIN storage.utxos)
       => /\ ~ret'.ok
          /\ storage'.utxos = storage.utxos
          /\ DOMAIN storage'.shard_indices = DOMAIN storage.shard_indices
          /\ storage'.shard_indices = storage.shard_indices
          /\ storage'.spatial_index = storage.spatial_index]_vars

\* the ids currently indexed whose point is within radius of center
IndexedInRange(ix, center, radius) ==
    {ix.ids[i] : i \in {k \in DOMAIN ix.ids : InRange(ix.points[k], center, radius)}}

\* C20: after any sequence of insert and remove calls, query_range(center,
\* radius) returns exactly the ids currently indexed whose point is within
\* Euclidean distance radius of center, points inserted after the last
\* KD-tree rebuild included.
C20_QueryRangeExact ==
    ret.op = "query_range"
        => ret.arg.ids = IndexedInRange(indexer, ret.arg.center, ret.arg.radius)

\* the smallest k with 2 ** k >= n: ceil(log2(n)) for n >= 1
RECURSIVE CeilLog2From(_, _)
CeilLog2From(n, k) == IF Pow2(k) >= n THEN k ELSE CeilLog2From(n, k + 1)

\* the binary digits of n, most significant first, as many as ceil(log2(n+1))
RECURSIVE BinaryExpansion(_)
BinaryExpansion(n) ==
    IF n = 0 THEN <<>> ELSE Append(BinaryExpansion(n \div 2), n % 2)

\* C22: the coordinate check for shard S accepts a coordinate exactly when
\* its shard_id is S, its depth is at least ceil(log2(S + 1)) and its leading
\* path digits are the binary expansion of S, most significant bit first.
C22_CoordinateCheckIsTheRule ==
    ret.op = "_validate_coordinate" =>
        LET S == ret.arg.shard_id
            c == ret.arg.coordinate
            bits == BinaryExpansion(S)
        IN ret.ok <=> /\ get_shard_id(c) = S
                      /\ Len(c) >= CeilLog2From(S + 1, 0)
                      /\ Len(c) >= Len(bits)
                      /\ SubSeq(c, 1, Len(bits)) = bits

\* C24: for every path over {0, 1, 2}, to_cartesian gives a point with
\* 0 <= x <= 1 and 0 <= y <= sqrt(3)/2.
C24_CartesianInTriangle ==
    ret.op = "to_cartesian" =>
        /\ 0 <= ret.arg.point[1] /\ ret.arg.point[1] <= CartesianUnit
        /\ 0 <= ret.arg.point[2] /\ 2 * ret.arg.point[2] <= CartesianUnit

\* C21: ShardConsensus.validate_block never accepts a block whose timestamp
\* is more than 7200 seconds after the current time, with or without a
\* previous block.
C21_NoFarFutureBlockAccepted ==
    (ret.op = "consensus.validate_block" /\ ret.ok)
        => ret.arg.block.timestamp <= Now + FutureTolerance

\* C23: get_next_difficulty(prev) returns prev.difficulty while the window
\* holds fewer than W pairs; with a full window it returns
\* max(floor(prev.difficulty * adjust), initial_difficulty), which is never
\* below initial_difficulty, never above M * prev.difficulty, and strictly
\* below prev.difficulty when the blocks of the window were slower than the
\* target.
C23_NextDifficulty ==
    ret.op = "get_next_difficulty" =>
        LET r == consensus.recent_blocks
            window == consensus.difficulty_adjustment_window
            max_change == consensus.max_difficulty_change
            d == ret.arg.prev.difficulty
            span == r[Len(r)][2] - r[1][2]
        IN /\ ret.ok
           /\ Len(r) < window => ret.arg.value = d
           /\ Len(r) = window =>
                 /\ ret.arg.value >= consensus.initial_difficulty
                 /\ ret.arg.value <= max_change * d
                 /\ span > consensus.target_block_time * (window - 1) => ret.arg.value < d

\* the hashes of the chain that ends in the block of the given hash, oldest first
RECURSIVE ChainTo(_, _)
ChainTo(blocks_, block_hash) ==
    IF block_hash \notin DOMAIN blocks_ THEN <<>>
    ELSE ChainTo(blocks_, blocks_[block_hash].prev_hash) \o <<block_hash>>

\* the main chain, from the genesis block to main_head
MainChain ==
    IF main_head = NoHead THEN <<>> ELSE ChainTo(blocks, main_head.block.block_hash)

\* the main-chain hashes that follow position i, at most max_blocks of them
MainChainAfter(i, max_blocks) ==
    LET rest == SubSeq(MainChain, i + 1, Len(MainChain))
    IN SubSeq(rest, 1, IF Len(rest) < max_blocks THEN Len(rest) ELSE max_blocks)

\* C25: for a hash on the main chain, get_blocks_after returns, in ascending
\* order, the main-chain blocks that come after it, starting with its direct
\* successor and at most max_blocks of them (none for the main head itself).
C25_BlocksAfterOnMainChain ==
    ret.op = "get_blocks_after" =>
        \A i \in DOMAIN MainChain :
            MainChain[i] = ret.arg.block_hash =>
                /\ ret.ok
                /\ ret.arg.hashes = MainChainAfter(i, ret.arg.max_blocks)

SpendsOwnOutput(b, st) ==
    \E i, j \in DOMAIN b.transactions :
        /\ i < j
        /\ \E k \in DOMAIN b.transactions[j].inputs :
               /\ b.transactions[j].inputs[k] \notin DOMAIN st
               /\ b.transactions[j].inputs[k] \in
                      {UtxoId(u) : u \in SeqToSet(NewUtxos(b.transactions[i], b.height))}

\* C28: validate_block leaves the UTXO store as it found it, and it accepts no
\* block in which a transaction spends a UTXO that only an earlier
\* transaction of the same block creates.
C28_InputsResolvedAtBlockEntry ==
    [][ret'.op = "validate_block" =>
           /\ utxos' = utxos
           /\ ret'.ok => ~SpendsOwnOutput(v_block', utxos)]_vars

\* validate_block has refused the block BD, whose first transaction it would
\* accept and whose second transaction spends the output of the first
C28_DependentBlockRefused ==
    /\ ret.op = "validate_block"
    /\ ret.arg = BD.block_hash
    /\ ~ret.ok
    /\ ret.err = "Invalid transaction"
    /\ SpendsOwnOutput(BD, utxos)
    /\ validate(utxos, T1, mempool, TRUE).ok

\* the store without the UTXOs of the given ids
RECURSIVE StoreWithout(_, _)
StoreWithout(st, ids) ==
    IF ids = <<>> THEN st ELSE StoreWithout(MapDel(st, Head(ids)), Tail(ids))

\* what applying the given transactions of a block of the given height makes
\* of a store: the inputs leave it and the outputs enter it
RECURSIVE TransactionsApplied(_, _, _)
TransactionsApplied(st, txs, height) ==
    IF txs = <<>> THEN st
    ELSE TransactionsApplied(StoreWith(StoreWithout(st, Head(txs).inputs),
                                       NewUtxos(Head(txs), height)),
                             Tail(txs), height)

\* what applying the stored blocks of the given hashes, in order, makes of a
\* store
RECURSIVE ChainApplied(_, _)
ChainApplied(st, hashes) ==
    IF hashes = <<>> THEN st
    ELSE ChainApplied(TransactionsApplied(st, blocks[Head(hashes)].transactions,
                                          blocks[Head(hashes)].height),
                      Tail(hashes))

\* C30: whatever add_block calls were made, the UTXO store is the store the
\* validator was constructed around with the blocks of the main chain applied
\* to it in chain order, up to main_head (counting the genesis block, which
\* the chain installs without applying it, or not).
C30_StoreIsMainChainApplied ==
    \/ utxos = ChainApplied(SeedStore, MainChain)
    \/ utxos = ChainApplied(SeedStore, Tail(MainChain))

\* the store holds a block half applied: one of the UTXOs it spends is gone
\* and one of the UTXOs it creates is not there
PartiallyApplied(b, st) ==
    /\ \E id \in SeqToSet(AllInputs(b.transactions)) : id \notin DOMAIN st
    /\ \E i \in DOMAIN b.transactions :
           \E u \in SeqToSet(NewUtxos(b.transactions[i], b.height)) :
               UtxoId(u) \notin DOMAIN st

\* C29: a query that runs while add_block is under way never finds the block
\* of that call partially applied: not the store with some of the UTXOs the
\* block spends removed and the UTXOs it creates not yet inserted, and not the
\* block in blocks or heads while main_head does not yet account for it.
C29_ReaderSeesNoPartialBlock ==
    [][(/\ ret'.op \in {"get_utxo", "get_block", "get_chain_head"}
        /\ writer' = writer
        /\ writer.pc # "idle") =>
           /\ ~PartiallyApplied(writer.block, utxos)
           /\ writer.block.block_hash \notin DOMAIN blocks]_vars

\* C31: a block that validate_block accepts (FractalBlock.verify and
\* ShardConsensus.validate_block have then accepted it) has a block_hash that
\* is the digest of its header fields.
C31_AcceptedHashIsHeaderDigest ==
    (ret.op = "validate_block" /\ ret.ok) =>
        v_block.block_hash = compute_hash(v_block)

\* every transaction of the block is in the mempool
AllPooled(b) ==
    /\ b.transactions # <<>>
    /\ \A i \in DOMAIN b.transactions :
           b.transactions[i].tx_id \in DOMAIN mempool.transactions

\* the block meets the consensus and structural rules with whatever previous
\* block and references it is handed in with: the validator accepts it when
\* nothing is pooled
AcceptableBlock(b) ==
    \A prev \in PrevChoices : \A refs \in RefChoices(b) :
        validate_block(utxos, EmptyMempool, recent, b, prev, refs).ok

\* C32: validate_block accepts a block that meets the consensus and
\* structural rules and whose transactions are all in the mempool; being
\* pooled does not make a transaction's own inputs count as spent.
C32_PooledBlockAccepted ==
    [][\A b \in ValidatorBlocks :
           (/\ ret'.op = "validate_block"
            /\ ret'.arg = b.block_hash
            /\ mempool' = mempool
            /\ AllPooled(b)
            /\ AcceptableBlock(b)) => ret'.ok]_vars

\* what get_next_difficulty would answer for prev with the window as sc has it
ExpectedDifficulty(sc, prev) ==
    [raised |-> ShardConsensus_get_next_difficulty(sc, prev).raised,
     value |-> ShardConsensus_get_next_difficulty(sc, prev).value]

\* C33: validating the same block against the same previous block once more
\* gives the verdict it gave before, and a validation leaves the difficulty
\* that get_next_difficulty expects after any block as it was.
C33_ValidationRepeatable ==
    [][ret'.op = "consensus.validate_block" =>
           /\ (ret.op = "consensus.validate_block" /\ ret.arg = ret'.arg)
                  => ret'.ok = ret.ok
           /\ \A prev \in ConsensusBlocks :
                  ExpectedDifficulty(consensus', prev) = ExpectedDifficulty(consensus, prev)]_vars

\* the block that the step has installed as a head, or NoBlock
InstalledBlock ==
    IF \E h \in DOMAIN heads' : h \notin DOMAIN blocks
    THEN blocks'[CHOOSE h \in DOMAIN heads' : h \notin DOMAIN blocks]
    ELSE NoBlock

\* how often the add_block call of the step that installs b has handed b to
\* apply_block: once before it stores the block, and once for every time
\* the reorganization to the new head lists it
TimesApplied(b) ==
    LET installed == Install(State, b, heads'[b.block_hash])
        applied == IF BetterThanMain(installed, heads'[b.block_hash])
                   THEN ReorgApplied(installed, heads'[b.block_hash])
                   ELSE <<>>
    IN 1 + Cardinality({i \in DOMAIN applied : applied[i] = b})

OutputsOf(b) ==
    {<<t, i>> : t \in DOMAIN b.transactions, i \in 1..2} \cap
    UNION {{<<t, i>> : i \in DOMAIN b.transactions[t].outputs} : t \in DOMAIN b.transactions}

\* the id under which apply_block stores the output: the id of the UTXO that
\* execute builds from it
StoredId(b, o) == UtxoId(NewUtxos(b.transactions[o[1]], b.height)[o[2]])

\* C35: in a block that validate_block accepts, different outputs are stored
\* under different UTXO ids, and the key that context.created_utxos holds for
\* an output is the id under which the output is stored.
C35_OutputIdsUniqueAndAgree ==
    (ret.op = "validate_block" /\ ret.ok) =>
        /\ \A o1, o2 \in OutputsOf(v_block) :
               o1 # o2 => StoredId(v_block, o1) # StoredId(v_block, o2)
        /\ \A o \in OutputsOf(v_block) :
               CreatedKey(v_block.transactions[o[1]].tx_id, o[2]) = StoredId(v_block, o)

\* C36: the proof that FractalBlock.add_transaction stores for a cross-shard
\* transaction is a proof of that transaction: its tx_hash is the id of the
\* transaction and its source and target shards cover the shards of the
\* outputs; a proof built for another transaction is refused.
C36_StoredProofIsOfTransaction ==
    (ret.op = "block.add_transaction" /\ ret.ok) =>
        \A i \in DOMAIN ret.arg.stored :
            /\ ret.arg.stored[i].key = ret.arg.tx.tx_id
            /\ ret.arg.stored[i].proof.tx_hash = ret.arg.tx.tx_id
            /\ OutputShards(ret.arg.tx) \subseteq
                   {ret.arg.stored[i].proof.source_shard}
                       \cup ret.arg.stored[i].proof.target_shards


\* FractalBlockchain.__init__ with the genesis block g: the block is
\* validated without a parent against the fresh store
GenesisAccepted(g) ==
    validate_block(SeedStore, EmptyMempool, <<>>, g, NoBlock, {}).ok

\* C37: a mined block with no transactions that is new to the chain and
\* whose parent is a head is accepted by add_block
C37_EmptyBlockAccepted ==
    [][(/\ ret'.op = "add_block"
        /\ ret'.arg = E1.block_hash
        /\ ~AlreadyHave(State, E1)
        /\ ParentIsHead(State, E1))
            => ret'.ok]_vars


\* the sum of the header difficulty values of the blocks of chain
RECURSIVE DifficultySum(_, _)
DifficultySum(blocks_, chain) ==
    IF chain = <<>> THEN 0
    ELSE blocks_[Head(chain)].difficulty + DifficultySum(blocks_, Tail(chain))

C39_EveryShardHasCoordinate ==
    (/\ ret.op = "_validate_coordinate"
     /\ ret.arg.shard_id \in 0..2
     /\ ~ret.ok)
        => \E coord \in Coordinates : validate_coordinate(ret.arg.shard_id, coord)


\* the total amount of the stored UTXOs among ids, each counted once
RECURSIVE AmountOf(_, _)
AmountOf(st, ids) ==
    IF ids = {} THEN 0
    ELSE LET id == CHOOSE x \in ids : TRUE
         IN (IF id \in DOMAIN st THEN st[id].amount ELSE 0) + AmountOf(st, ids \ {id})

\* C40: a transaction admitted to the mempool lists no utxo_id twice, and its
\* outputs do not exceed the total amount of the distinct UTXOs it spends.
C40_NoInputListedTwice ==
    (ret.op = "add_transaction" /\ ret.ok) =>
        \A tx \in Transactions :
            tx.tx_id = ret.arg =>
                /\ \A i, j \in DOMAIN tx.inputs : tx.inputs[i] = tx.inputs[j] => i = j
                /\ OutputSum(tx.outputs) <= AmountOf(utxos, {tx.inputs[i] : i \in DOMAIN tx.inputs})

=============================================================================
